---- MODULE Spec2Model ----
(***************************************************************************)
(* A model of the search-orchestration and result-fusion pipeline of the   *)
(* multi-engine search backend (src/backend).                              *)
(*                                                                         *)
(*   Spec / FairSpec : SearchOrchestrator.search_all followed by           *)
(*                     SearchOrchestrator.search_all_streaming against     *)
(*                     the same engine behaviour                           *)
(*   UrlSpec         : ResultSynthesizer._normalize_url on pairs of URLs   *)
(*   SynthSpec       : ResultSynthesizer.synthesize, the _deduplicate loop *)
(*                     one iteration per step                              *)
(*                                                                         *)
(* Strings the code inspects character by character (URLs, snippets) are   *)
(* sequences of one-character strings.                                     *)
(***************************************************************************)
EXTENDS Integers, Sequences, FiniteSets, TLC

VARIABLES
    \* ---- environment of one orchestrated request
    profile,      \* engine -> how its search() behaves (latency, raises, results)
    subQueries,   \* the sub_queries argument
    \* ---- search_all (batch)
    bPc,          \* "idle" | "running" | "returned" | "raised"
    bQuery,       \* engine -> sub-query its task was created with
    bTask,        \* engine -> task record of its _search_with_timeout coroutine
    bMap,         \* engine_results, the returned dict
    \* ---- search_all_streaming
    sPc,          \* "idle" | "wait" | "iter" | "finished"
    sQuery,       \* engine -> sub-query its task was created with
    sTask,        \* engine -> task record
    tasks,        \* keys (by engine name) still in the `tasks` dict
    done,         \* tasks of the current `done` set not yet iterated
    emitted,      \* the pairs yielded so far, in order
    settleSeq,    \* history: engines in the order their streaming tasks settled
    roundOf,      \* history: engine -> asyncio.wait round that collected it (0: none)
    round,        \* history: number of asyncio.wait calls that have returned
    \* ---- _normalize_url
    urlPc, urlA, urlB, normA, normB, normAA,
    \* ---- synthesize
    yPc,          \* "start" | "dedup" | "done"
    rawOrder,     \* raw_results: engine names in dict insertion order
    rawResults,   \* raw_results: engine -> its result list
    query,        \* the query argument, a character sequence
    maxResults,   \* the max_results argument
    allResults,   \* all_results, the flattened list
    idx,          \* number of results the _deduplicate loop has processed
    seenUrls,     \* seen_urls: canonical URL -> result
    unique,       \* unique
    steps,        \* history: the branch each loop iteration took, in order
    output,       \* the dict synthesize returns
    \* ---- QueryProcessor.breakdown_query
    planPc,       \* "start" | "dedup" | "returned"
    planWords,    \* history: the words the query was written with
    planQuery,    \* the query argument, a character sequence
    planSubs,     \* sub_queries
    planIdx,      \* number of sub-queries the duplicate loop has processed
    planSeen,     \* seen
    planUnique,   \* unique_queries
    planOut,      \* the returned list
    \* ---- SearXNGEngine.search
    sxPc,         \* "start" | "trying" | "returned"
    sxAttempts,   \* history: the attempts made, [host, outcome, results]
    sxOut,        \* the returned list
    sxInstanceUrl, \* self.instance_url of the SearXNG engine
    \* ---- OllamaQueryProcessor
    llmPc,        \* "new" | "ready"
    useOllama,    \* self.use_ollama
    probes,       \* history: number of liveness probes sent
    llmCalls,     \* history: number of generate requests sent
    probeOutcome, \* history: what the liveness probe came to
    llmLog,       \* history: per breakdown_query call, its query, whether it
                  \* sent a generate request, the reply, and what it returned
    \* ---- websocket_process and the ConnectionManager
    activeConnections, \* manager.active_connections
    wsPc,         \* per connection, where its handler is: "new" | "receiving" |
                  \* "breaking" | "searching" | "synthesizing" | "reporting" |
                  \* "ended"
    wsClient      \* per connection, "open" or "gone" (the client went away)

orchVars == <<profile, subQueries, bPc, bQuery, bTask, bMap, sPc, sQuery, sTask,
              tasks, done, emitted, settleSeq, roundOf, round>>
urlVars == <<urlPc, urlA, urlB, normA, normB, normAA>>
synthVars == <<yPc, rawOrder, rawResults, query, maxResults, allResults, idx,
               seenUrls, unique, steps, output>>
planVars == <<planPc, planWords, planQuery, planSubs, planIdx, planSeen, planUnique,
              planOut>>
sxVars == <<sxPc, sxAttempts, sxOut, sxInstanceUrl>>
llmVars == <<llmPc, useOllama, probes, llmCalls, probeOutcome, llmLog>>
wsVars == <<activeConnections, wsPc, wsClient>>
vars == <<orchVars, urlVars, synthVars, planVars, sxVars, llmVars, wsVars>>

(***************************************************************************)
(* Generic helpers                                                         *)
(***************************************************************************)
Range(s) == {s[i] : i \in 1..Len(s)}

Min(a, b) == IF a < b THEN a ELSE b

EmptyMap == [x \in {} |-> <<>>]

RECURSIVE SumLen(_, _)
\* sum(len(m[k]) for k in ks)
SumLen(m, ks) ==
    IF ks = {} THEN 0
    ELSE LET k == CHOOSE x \in ks : TRUE
         IN Len(m[k]) + SumLen(m, ks \ {k})

RECURSIVE SumPairs(_)
\* sum(len(results) for (_, results) in pairs)
SumPairs(ps) ==
    IF ps = <<>> THEN 0 ELSE Len(Head(ps).results) + SumPairs(Tail(ps))

(***************************************************************************)
(* Engines                                                                 *)
(***************************************************************************)
\* SearchOrchestrator.__init__: the engines dict, in insertion order
Registered == <<"SearXNG", "DuckDuckGo", "Google", "Wikipedia", "Wikidata">>

\* The model runs the first NumEngines registered engines.
NumEngines == 3

EngineOrder == SubSeq(Registered, 1, Min(NumEngines, Len(Registered)))
Engines == Range(EngineOrder)
EngineIndex(e) == CHOOSE i \in 1..Len(EngineOrder) : EngineOrder[i] = e

\* settings.search_timeout, the timeout main.py passes to search_all
SearchTimeout == 15
\* the timeout search_all_streaming passes to _search_with_timeout
StreamTimeout == 8

\* BaseSearchEngine._create_result: the results an engine produces carry its name
Resp(e) == <<[source |-> e, n |-> 1], [source |-> e, n |-> 2]>>

\* The behaviours of one engine's search(), latency in seconds: answer in
\* time, raise, answer after 10 s, answer after 20 s.
Profiles(e) ==
    { [latency |-> 1,  raises |-> FALSE, results |-> Resp(e)],
      [latency |-> 1,  raises |-> TRUE,  results |-> <<>>],
      [latency |-> 10, raises |-> FALSE, results |-> Resp(e)],
      [latency |-> 20, raises |-> FALSE, results |-> SubSeq(Resp(e), 1, 1)] }

\* The sub-query lists a request is run with.
SubQueryLists == { <<"sq1">>, <<"sq1", "sq2">> }

NoTask == [st |-> "none", kind |-> "value", val |-> <<>>]
Pending == [st |-> "pending", kind |-> "value", val |-> <<>>]

\* Mutant: the search is awaited without asyncio.wait_for.
SearchWithTimeoutNoWaitFor(p, timeout) ==
    IF p.raises THEN [st |-> "done", kind |-> "value", val |-> <<>>]
    ELSE [st |-> "done", kind |-> "value", val |-> p.results]

\* _search_with_timeout: the settled task of an engine behaving as p
SearchWithTimeout(p, timeout) ==
    IF p.latency > timeout
    THEN [st |-> "done", kind |-> "value", val |-> <<>>]      \* TimeoutError
    ELSE IF p.raises
    THEN [st |-> "done", kind |-> "value", val |-> <<>>]      \* Exception
    ELSE [st |-> "done", kind |-> "value", val |-> p.results]

\* When the coroutine of an engine behaving as p settles.
SettleTime(p, timeout) == Min(p.latency, timeout)

\* A task settles only after every task that settles strictly earlier.
MaySettle(e, task, timeout) ==
    /\ task[e].st = "pending"
    /\ \A f \in Engines :
          SettleTime(profile[f], timeout) < SettleTime(profile[e], timeout)
              => task[f].st = "done"

\* Mutant: every engine is searched with the first sub-query.
AssignedQueryAlwaysFirst(e) == subQueries[1]

\* query_idx = len(tasks) % len(sub_queries); search_query = sub_queries[query_idx]
AssignedQuery(e) == subQueries[((EngineIndex(e) - 1) % Len(subQueries)) + 1]

(***************************************************************************)
(* search_all                                                              *)
(***************************************************************************)
\* the task-creation loop; len(tasks) % len(sub_queries) raises on an empty list
SearchAllStart ==
    /\ bPc = "idle"
    /\ IF Engines # {} /\ subQueries = <<>>
       THEN /\ bPc' = "raised"
            /\ UNCHANGED <<bQuery, bTask>>
       ELSE /\ bPc' = "running"
            /\ bQuery' = [e \in Engines |-> AssignedQuery(e)]
            /\ bTask' = [e \in Engines |-> Pending]
    /\ UNCHANGED <<urlVars, synthVars, planVars, sxVars, llmVars, wsVars>>
    /\ UNCHANGED <<profile, subQueries, bMap, sPc, sQuery, sTask, tasks, done,
                   emitted, settleSeq, roundOf, round>>

BatchTaskSettle(e) ==
    /\ bPc = "running"
    /\ MaySettle(e, bTask, SearchTimeout)
    /\ bTask' = [bTask EXCEPT ![e] = SearchWithTimeout(profile[e], SearchTimeout)]
    /\ UNCHANGED <<urlVars, synthVars, planVars, sxVars, llmVars, wsVars>>
    /\ UNCHANGED <<profile, subQueries, bPc, bQuery, bMap, sPc, sQuery, sTask,
                   tasks, done, emitted, settleSeq, roundOf, round>>

\* Mutant: only engines that produced results are put in the dict.
OrganizeResultsOnlyNonEmpty(t) ==
    [e \in {f \in Engines : t[f].kind = "value" /\ t[f].val # <<>>} |-> t[e].val]

\* the zip loop over gather's results
OrganizeResults(t) ==
    [e \in Engines |-> IF t[e].kind = "exc" THEN <<>> ELSE t[e].val]

\* asyncio.gather(*tasks, return_exceptions=True) returns once all have settled
GatherReturn ==
    /\ bPc = "running"
    /\ \A e \in Engines : bTask[e].st = "done"
    /\ bMap' = OrganizeResults(bTask)
    /\ bPc' = "returned"
    /\ UNCHANGED <<urlVars, synthVars, planVars, sxVars, llmVars, wsVars>>
    /\ UNCHANGED <<profile, subQueries, bQuery, bTask, sPc, sQuery, sTask, tasks,
                   done, emitted, settleSeq, roundOf, round>>

(***************************************************************************)
(* search_all_streaming                                                    *)
(***************************************************************************)
StreamStart ==
    /\ bPc = "returned"
    /\ sPc = "idle"
    /\ sQuery' = [e \in Engines |-> AssignedQuery(e)]
    /\ sTask' = [e \in Engines |-> Pending]
    /\ tasks' = Engines
    /\ sPc' = IF Engines = {} THEN "finished" ELSE "wait"
    /\ UNCHANGED <<urlVars, synthVars, planVars, sxVars, llmVars, wsVars>>
    /\ UNCHANGED <<profile, subQueries, bPc, bQuery, bTask, bMap, done, emitted,
                   settleSeq, roundOf, round>>

StreamTaskSettle(e) ==
    /\ sPc \in {"wait", "iter"}
    /\ MaySettle(e, sTask, StreamTimeout)
    /\ sTask' = [sTask EXCEPT ![e] = SearchWithTimeout(profile[e], StreamTimeout)]
    /\ settleSeq' = Append(settleSeq, e)
    /\ UNCHANGED <<urlVars, synthVars, planVars, sxVars, llmVars, wsVars>>
    /\ UNCHANGED <<profile, subQueries, bPc, bQuery, bTask, bMap, sPc, sQuery,
                   tasks, done, emitted, roundOf, round>>

\* Mutant: the wait hands back a single completed task.
WaitDoneSetsOne == { {e} : e \in {f \in tasks : sTask[f].st = "done"} }

\* asyncio.wait(tasks.keys(), return_when=FIRST_COMPLETED): the done sets it
\* can return are the one set of all tasks completed so far
WaitDoneSets == { {e \in tasks : sTask[e].st = "done"} } \ {{}}

WaitReturn ==
    /\ sPc = "wait"
    /\ \E d \in WaitDoneSets :
          /\ done' = d
          /\ roundOf' = [e \in Engines |-> IF e \in d THEN round + 1 ELSE roundOf[e]]
    /\ round' = round + 1
    /\ sPc' = "iter"
    /\ UNCHANGED <<urlVars, synthVars, planVars, sxVars, llmVars, wsVars>>
    /\ UNCHANGED <<profile, subQueries, bPc, bQuery, bTask, bMap, sQuery, sTask,
                   tasks, emitted, settleSeq>>

\* Mutant: an engine without results is not yielded.
YieldedPairsSkipEmpty(e) ==
    IF sTask[e].kind = "exc" \/ sTask[e].val = <<>>
    THEN <<>>
    ELSE <<[engine |-> e, results |-> sTask[e].val]>>

\* try: results = await task; yield engine_name, results
\* except Exception: yield engine_name, []
YieldedPairs(e) ==
    IF sTask[e].kind = "exc"
    THEN <<[engine |-> e, results |-> <<>>]>>
    ELSE <<[engine |-> e, results |-> sTask[e].val]>>

\* One iteration of `for task in done` (a set: any order), up to the point
\* where the generator is next suspended or finishes.
IterYield(e) ==
    /\ sPc = "iter"
    /\ e \in done
    /\ tasks' = tasks \ {e}
    /\ done' = done \ {e}
    /\ emitted' = emitted \o YieldedPairs(e)
    /\ sPc' = IF done' # {} THEN "iter"
              ELSE IF tasks' # {} THEN "wait"
              ELSE "finished"
    /\ UNCHANGED <<urlVars, synthVars, planVars, sxVars, llmVars, wsVars>>
    /\ UNCHANGED <<profile, subQueries, bPc, bQuery, bTask, bMap, sQuery, sTask,
                   settleSeq, roundOf, round>>

InitOrch ==
    /\ profile \in [Engines -> UNION {Profiles(e) : e \in Engines}]
    /\ \A e \in Engines : profile[e] \in Profiles(e)
    /\ subQueries \in SubQueryLists
    /\ bPc = "idle"
    /\ bQuery = EmptyMap
    /\ bTask = [e \in Engines |-> NoTask]
    /\ bMap = EmptyMap
    /\ sPc = "idle"
    /\ sQuery = EmptyMap
    /\ sTask = [e \in Engines |-> NoTask]
    /\ tasks = {}
    /\ done = {}
    /\ emitted = <<>>
    /\ settleSeq = <<>>
    /\ roundOf = [e \in Engines |-> 0]
    /\ round = 0

NextOrch ==
    \/ SearchAllStart
    \/ \E e \in Engines : BatchTaskSettle(e)
    \/ GatherReturn
    \/ StreamStart
    \/ \E e \in Engines : StreamTaskSettle(e)
    \/ WaitReturn
    \/ \E e \in Engines : IterYield(e)

(***************************************************************************)
(* Character strings                                                       *)
(***************************************************************************)
UpperToLower ==
    [c \in {"A", "B", "C", "D", "E", "F", "G", "H", "I", "J", "K", "L", "M",
            "N", "O", "P", "Q", "R", "S", "T", "U", "V", "W", "X", "Y", "Z"} |->
        CASE c = "A" -> "a" [] c = "B" -> "b" [] c = "C" -> "c" [] c = "D" -> "d"
          [] c = "E" -> "e" [] c = "F" -> "f" [] c = "G" -> "g" [] c = "H" -> "h"
          [] c = "I" -> "i" [] c = "J" -> "j" [] c = "K" -> "k" [] c = "L" -> "l"
          [] c = "M" -> "m" [] c = "N" -> "n" [] c = "O" -> "o" [] c = "P" -> "p"
          [] c = "Q" -> "q" [] c = "R" -> "r" [] c = "S" -> "s" [] c = "T" -> "t"
          [] c = "U" -> "u" [] c = "V" -> "v" [] c = "W" -> "w" [] c = "X" -> "x"
          [] c = "Y" -> "y" [] c = "Z" -> "z"]

\* str.lower()
Lower(s) ==
    [i \in 1..Len(s) |-> IF s[i] \in DOMAIN UpperToLower THEN UpperToLower[s[i]] ELSE s[i]]

StartsWith(s, pre) == Len(s) >= Len(pre) /\ SubSeq(s, 1, Len(pre)) = pre

DropPrefix(s, pre) == IF StartsWith(s, pre) THEN SubSeq(s, Len(pre) + 1, Len(s)) ELSE s

RECURSIVE RStrip(_, _)
\* str.rstrip(c)
RStrip(s, c) ==
    IF s # <<>> /\ s[Len(s)] = c THEN RStrip(SubSeq(s, 1, Len(s) - 1), c) ELSE s

\* str.split(c)[0]
BeforeFirst(s, c) ==
    IF \E i \in 1..Len(s) : s[i] = c
    THEN SubSeq(s, 1, (CHOOSE i \in 1..Len(s) :
                          s[i] = c /\ \A j \in 1..(i - 1) : s[j] # c) - 1)
    ELSE s

HttpScheme == <<"h", "t", "t", "p", ":", "/", "/">>
HttpsScheme == <<"h", "t", "t", "p", "s", ":", "/", "/">>
WwwPrefix == <<"w", "w", "w", ".">>

\* re.sub(r'^https?://', '', url)
StripScheme(u) ==
    IF StartsWith(u, HttpScheme) THEN DropPrefix(u, HttpScheme)
    ELSE DropPrefix(u, HttpsScheme)

(***************************************************************************)
(* ResultSynthesizer._normalize_url                                        *)
(***************************************************************************)
NormalizeUrl(u) ==
    LET u1 == StripScheme(u)
        u2 == DropPrefix(u1, WwwPrefix)       \* re.sub(r'^www\.', '', url)
        u3 == RStrip(u2, "/")                 \* url.rstrip('/')
        u4 == BeforeFirst(u3, "?")            \* url.split('?')[0]
        u5 == BeforeFirst(u4, "#")            \* url.split('#')[0]
    IN Lower(u5)

\* The spellings of one address: with or without a scheme (in either case),
\* a leading "www.", an upper-case host, a trailing slash, a query string and
\* a fragment.
SchemeSpellings == {<<>>, HttpScheme, HttpsScheme, <<"H", "T", "T", "P", ":", "/", "/">>}
WwwSpellings == {<<>>, WwwPrefix}
AddressSpellings == {<<"a", "/", "x">>, <<"A", "/", "x">>}
SlashSpellings == {<<>>, <<"/">>}
QuerySpellings == {<<>>, <<"?", "q">>}
FragmentSpellings == {<<>>, <<"#", "f">>}

UrlSpellings ==
    { s \o w \o a \o t \o q \o f :
        s \in SchemeSpellings, w \in WwwSpellings, a \in AddressSpellings,
        t \in SlashSpellings, q \in QuerySpellings, f \in FragmentSpellings }

InitUrl ==
    /\ urlPc = "start"
    /\ urlA \in UrlSpellings
    /\ urlB \in UrlSpellings
    /\ normA = <<>>
    /\ normB = <<>>
    /\ normAA = <<>>

\* url = self._normalize_url(result.url), for two results
UrlNormalize ==
    /\ urlPc = "start"
    /\ normA' = NormalizeUrl(urlA)
    /\ normB' = NormalizeUrl(urlB)
    /\ urlPc' = "once"
    /\ UNCHANGED <<urlA, urlB, normAA>>
    /\ UNCHANGED <<orchVars, synthVars, planVars, sxVars, llmVars, wsVars>>

\* the canonical URL normalized again
UrlRenormalize ==
    /\ urlPc = "once"
    /\ normAA' = NormalizeUrl(normA)
    /\ urlPc' = "twice"
    /\ UNCHANGED <<urlA, urlB, normA, normB>>
    /\ UNCHANGED <<orchVars, synthVars, planVars, sxVars, llmVars, wsVars>>

NextUrl == UrlNormalize \/ UrlRenormalize

(***************************************************************************)
(* difflib.SequenceMatcher(None, a, b).ratio() for strings shorter than    *)
(* 200 characters (no element is treated as junk below that length)        *)
(***************************************************************************)
RECURSIVE RunLen(_, _, _, _, _, _)
\* length of the common run of a[i..ahi] and b[j..bhi] that starts at i, j
RunLen(a, b, i, j, ahi, bhi) ==
    IF i > ahi \/ j > bhi \/ a[i] # b[j] THEN 0
    ELSE 1 + RunLen(a, b, i + 1, j + 1, ahi, bhi)

\* find_longest_match: the longest block, the one earliest in a and then
\* earliest in b among the longest; size 0 when nothing matches
LongestMatch(a, b, alo, ahi, blo, bhi) ==
    LET cands == { <<i, j>> \in (alo..ahi) \X (blo..bhi) : a[i] = b[j] }
        size(c) == RunLen(a, b, c[1], c[2], ahi, bhi)
    IN IF cands = {} THEN [i |-> alo, j |-> blo, size |-> 0]
       ELSE LET best == CHOOSE c \in cands :
                           \A d \in cands :
                              \/ size(c) > size(d)
                              \/ /\ size(c) = size(d)
                                 /\ \/ c[1] < d[1]
                                    \/ c[1] = d[1] /\ c[2] <= d[2]
            IN [i |-> best[1], j |-> best[2], size |-> size(best)]

RECURSIVE MatchedChars(_, _, _, _, _, _)
\* get_matching_blocks: the sizes of the matching blocks, summed
MatchedChars(a, b, alo, ahi, blo, bhi) ==
    IF alo > ahi \/ blo > bhi THEN 0
    ELSE LET m == LongestMatch(a, b, alo, ahi, blo, bhi)
         IN IF m.size = 0 THEN 0
            ELSE m.size
                 + MatchedChars(a, b, alo, m.i - 1, blo, m.j - 1)
                 + MatchedChars(a, b, m.i + m.size, ahi, m.j + m.size, bhi)

\* Mutant: no test for empty text; the ratio of two empty strings is 1.0.
IsContentSimilarNoEmptyGuard(text1, text2) ==
    LET a == Lower(text1)
        b == Lower(text2)
    IN IF a = <<>> /\ b = <<>> THEN TRUE
       ELSE 10 * MatchedChars(a, b, 1, Len(a), 1, Len(b)) > 4 * (Len(a) + Len(b))

\* _is_content_similar: ratio = 2.0 * matches / (len(a) + len(b)) > 0.8
IsContentSimilar(text1, text2) ==
    IF text1 = <<>> \/ text2 = <<>> THEN FALSE
    ELSE LET a == Lower(text1)
             b == Lower(text2)
         IN 10 * MatchedChars(a, b, 1, Len(a), 1, Len(b)) > 4 * (Len(a) + Len(b))

(***************************************************************************)
(* ResultSynthesizer: helpers                                              *)
(***************************************************************************)
\* Mutant: every source has the default priority.
GetSourcePriorityFlat(source) == 1

\* Mutant: the table is rescaled to 10 while authority still divides by 5.
GetSourcePriorityWide(source) ==
    CASE source = "Wikipedia" -> 10
      [] source = "Wikidata" -> 8
      [] source = "SearXNG" -> 6
      [] source = "DuckDuckGo" -> 4
      [] source = "Brave" -> 4
      [] OTHER -> 2

\* _get_source_priority
GetSourcePriority(source) ==
    CASE source = "Wikipedia" -> 5
      [] source = "Wikidata" -> 4
      [] source = "SearXNG" -> 3
      [] source = "DuckDuckGo" -> 2
      [] source = "Brave" -> 2
      [] OTHER -> 1

\* Mutant: a later result of equal priority also replaces the held one.
ReplacesExistingOnTie(result, existing) ==
    GetSourcePriority(result.source) >= GetSourcePriority(existing.source)

\* the test that guards the replacement in _deduplicate
ReplacesExisting(result, existing) ==
    GetSourcePriority(result.source) > GetSourcePriority(existing.source)

\* Mutant: the held entry is not removed.
RemoveFirstKeepsAll(seq, x) == seq

\* list.remove(x): the list without its first element equal to x
RemoveFirst(seq, x) ==
    IF \E i \in 1..Len(seq) : seq[i] = x
    THEN LET k == CHOOSE i \in 1..Len(seq) : seq[i] = x /\ \A j \in 1..(i - 1) : seq[j] # x
         IN SubSeq(seq, 1, k - 1) \o SubSeq(seq, k + 1, Len(seq))
    ELSE seq

RECURSIVE Flatten(_, _)
\* for engine_name, results in raw_results.items(): all_results.extend(results)
Flatten(order, raw) ==
    IF order = <<>> THEN <<>> ELSE raw[Head(order)] \o Flatten(Tail(order), raw)

RECURSIVE SplitWords(_, _, _)
\* str.split(): the maximal runs of non-blank characters from position i on,
\* cur being the run in progress
SplitWords(s, i, cur) ==
    LET flush == IF cur = <<>> THEN <<>> ELSE <<cur>>
    IN IF i > Len(s) THEN flush
       ELSE IF s[i] = " " THEN flush \o SplitWords(s, i + 1, <<>>)
       ELSE SplitWords(s, i + 1, Append(cur, s[i]))

WordSet(s) == Range(SplitWords(Lower(s), 1, <<>>))

\* _calculate_relevance: Jaccard similarity, as the fraction num/den
CalculateRelevance(result, queryKeywords) ==
    LET words == WordSet(result.title \o <<" ">> \o result.snippet)
        union == queryKeywords \cup words
    IN IF union = {} THEN [num |-> 0, den |-> 1]
       ELSE [num |-> Cardinality(queryKeywords \cap words), den |-> Cardinality(union)]

\* _calculate_consensus, in fifths: min(count / 5.0, 1.0)
CalculateConsensus(result, raw) ==
    LET url == NormalizeUrl(result.url)
        count == Cardinality({ e \in DOMAIN raw :
                     \E i \in 1..Len(raw[e]) : NormalizeUrl(raw[e][i].url) = url })
    IN Min(count, 5)

\* _calculate_quality, in tenths
CalculateQuality(result) ==
    LET n == Len(result.snippet)
    IN IF n = 0 THEN 0 ELSE IF n < 50 THEN 3 ELSE IF n < 150 THEN 7 ELSE 10

\* _score_results, one result. authority is in fifths; final is the fraction
\* num/den of 0.4*relevance + 0.3*authority + 0.2*consensus + 0.1*quality,
\* with den = 100 * relevance.den.
ScoreResult(result, queryKeywords, raw) ==
    LET rel == CalculateRelevance(result, queryKeywords)
        auth == GetSourcePriority(result.source)
        cons == CalculateConsensus(result, raw)
        qual == CalculateQuality(result)
    IN [title |-> result.title, snippet |-> result.snippet, url |-> result.url,
        source |-> result.source,
        scores |-> [relevance |-> rel, authority |-> auth,
                    consensus |-> cons, quality |-> qual],
        final |-> [num |-> 40 * rel.num + rel.den * (6 * auth + 4 * cons + qual),
                   den |-> 100 * rel.den]]

ScoreResults(q, results, raw) ==
    [i \in 1..Len(results) |-> ScoreResult(results[i], WordSet(q), raw)]

\* x['final_score'] < y['final_score']
ScoreLess(x, y) == x.final.num * y.final.den < y.final.num * x.final.den

\* Mutant: x is placed before the elements it ties with.
InsertDescBeforeTies(sorted, x) ==
    LET k == Cardinality({ i \in 1..Len(sorted) : ScoreLess(x, sorted[i]) })
    IN SubSeq(sorted, 1, k) \o <<x>> \o SubSeq(sorted, k + 1, Len(sorted))

\* x placed after every element that does not score less than it
InsertDesc(sorted, x) ==
    LET k == Cardinality({ i \in 1..Len(sorted) : ~ScoreLess(sorted[i], x) })
    IN SubSeq(sorted, 1, k) \o <<x>> \o SubSeq(sorted, k + 1, Len(sorted))

RECURSIVE SortFrom(_, _, _)
SortFrom(scored, i, acc) ==
    IF i > Len(scored) THEN acc ELSE SortFrom(scored, i + 1, InsertDesc(acc, scored[i]))

\* sorted(scored_results, key=lambda x: x['final_score'], reverse=True): stable
SortedByFinalScore(scored) == SortFrom(scored, 1, <<>>)

\* seq[:m]
SlicePrefix(seq, m) ==
    IF m >= 0 THEN SubSeq(seq, 1, Min(m, Len(seq)))
    ELSE SubSeq(seq, 1, Len(seq) + m)

\* Mutant: no early return for an empty result list.
GenerateSummaryNoGuard(results, raw) ==
    [text |-> "Found", unique_count |-> Len(results),
     total_sources |-> SumLen(raw, DOMAIN raw),
     top_sources |-> { results[i].source : i \in 1..Min(3, Len(results)) }]

\* _generate_summary: the parts the summary text is formatted from
GenerateSummary(results, raw) ==
    IF results = <<>> THEN [text |-> "No results found."]
    ELSE [text |-> "Found", unique_count |-> Len(results),
          total_sources |-> SumLen(raw, DOMAIN raw),
          top_sources |-> { results[i].source : i \in 1..Min(3, Len(results)) },
          best_snippet |-> SlicePrefix(results[1].snippet, 150)]

\* Mutant: the truncated ranking is counted instead of the flattened input.
TotalRawOfTop(all, top) == Len(top)

\* 'total_raw': len(all_results)
TotalRaw(all, top) == Len(all)

\* steps 3 to 5 of synthesize and the dict it returns
SynthesisOutput(q, all, uniq, raw, m) ==
    LET ranked == SortedByFinalScore(ScoreResults(q, uniq, raw))
        top == SlicePrefix(ranked, m)
    IN [results |-> top,
        summary |-> GenerateSummary(top, raw),
        engine_stats |-> [e \in DOMAIN raw |-> Len(raw[e])],
        total_raw |-> TotalRaw(all, top),
        total_unique |-> Len(uniq)]

(***************************************************************************)
(* ResultSynthesizer.synthesize                                            *)
RECURSIVE DedupFrom(_, _, _, _)
\* the loop of _deduplicate from result i on, seen being seen_urls and uniq
\* the list unique
DedupFrom(results, i, seen, uniq) ==
    IF i > Len(results) THEN uniq
    ELSE LET result == results[i]
             url == NormalizeUrl(result.url)
         IN IF url \in DOMAIN seen
            THEN IF ReplacesExisting(result, seen[url])
                 THEN DedupFrom(results, i + 1, [seen EXCEPT ![url] = result],
                                Append(RemoveFirst(uniq, seen[url]), result))
                 ELSE DedupFrom(results, i + 1, seen, uniq)
            ELSE IF \E k \in 1..Len(uniq) : IsContentSimilar(result.snippet, uniq[k].snippet)
                 THEN DedupFrom(results, i + 1, seen, uniq)
                 ELSE DedupFrom(results, i + 1, (url :> result) @@ seen, Append(uniq, result))

\* _deduplicate
Deduplicate(results) == DedupFrom(results, 1, EmptyMap, <<>>)

\* synthesize, as a function of the query, the map in its insertion order and
\* max_results
Synthesize(q, order, raw, m) ==
    LET all == Flatten(order, raw)
    IN SynthesisOutput(q, all, Deduplicate(all), raw, m)

(***************************************************************************)
\* The engines whose results the synthesis is run on, in registration order.
SynthEngines == <<"DuckDuckGo", "Wikipedia">>

\* An address, the same address with a trailing slash, and another address.
SynthUrls == { <<"a", "/", "x">>, <<"a", "/", "x", "/">>, <<"b">> }

\* No snippet, a snippet, and a near copy of it (ratio 8/9).
SynthSnippets == { <<>>, <<"a", "b", "c", "d", "e">>, <<"A", "B", "C", "D">> }

SynthTitles == { <<"t">> }
SynthQueries == { <<"t", " ", "b">> }
MaxResultsValues == {1, 15}

\* SearchResult, as an engine named source creates it
SearchResults ==
    [title : SynthTitles, snippet : SynthSnippets, url : SynthUrls,
     source : Range(SynthEngines)]

\* Total number of results the engines return.
MaxRaw == 3

\* A result list per engine, written as the flattened list it gives: the
\* results of one engine are adjacent.
GroupedBySource(flat) ==
    \A i, j \in 1..Len(flat) :
        (i < j /\ flat[i].source = flat[j].source)
            => \A k \in i..j : flat[k].source = flat[i].source

FlatInputs ==
    { flat \in UNION { [1..k -> SearchResults] : k \in 0..MaxRaw } : GroupedBySource(flat) }

RECURSIVE SourcesInOrder(_, _)
SourcesInOrder(flat, seen) ==
    IF flat = <<>> THEN <<>>
    ELSE IF Head(flat).source \in seen THEN SourcesInOrder(Tail(flat), seen)
    ELSE <<Head(flat).source>> \o SourcesInOrder(Tail(flat), seen \cup {Head(flat).source})

\* raw_results as a dict: the engines that returned something in the order
\* given, then the engines that returned nothing
RawOrderOf(flat) ==
    LET first == SourcesInOrder(flat, {})
    IN first \o SelectSeq(SynthEngines, LAMBDA e : e \notin Range(first))

RawResultsOf(flat) ==
    [e \in Range(SynthEngines) |-> SelectSeq(flat, LAMBDA r : r.source = e)]

InitSynth ==
    /\ yPc = "start"
    /\ \E flat \in FlatInputs :
          /\ rawOrder = RawOrderOf(flat)
          /\ rawResults = RawResultsOf(flat)
    /\ query \in SynthQueries
    /\ maxResults \in MaxResultsValues
    /\ allResults = <<>>
    /\ idx = 0
    /\ seenUrls = EmptyMap
    /\ unique = <<>>
    /\ steps = <<>>
    /\ output = EmptyMap

\* Step 1: flatten all results; _deduplicate starts with nothing seen
SynthFlatten ==
    /\ yPc = "start"
    /\ allResults' = Flatten(rawOrder, rawResults)
    /\ yPc' = "dedup"
    /\ UNCHANGED <<rawOrder, rawResults, query, maxResults, idx, seenUrls, unique,
                   steps, output>>
    /\ UNCHANGED <<orchVars, urlVars, planVars, sxVars, llmVars, wsVars>>

\* the result the loop of _deduplicate is at, and its canonical URL
Current == allResults[idx + 1]
CurrentUrl == NormalizeUrl(Current.url)
InDedupLoop == yPc = "dedup" /\ idx < Len(allResults)

\* url in seen_urls, higher priority: replace
DedupReplace ==
    /\ InDedupLoop
    /\ CurrentUrl \in DOMAIN seenUrls
    /\ ReplacesExisting(Current, seenUrls[CurrentUrl])
    /\ unique' = Append(RemoveFirst(unique, seenUrls[CurrentUrl]), Current)
    /\ seenUrls' = [seenUrls EXCEPT ![CurrentUrl] = Current]
    /\ idx' = idx + 1
    /\ steps' = Append(steps, "replace")
    /\ UNCHANGED <<yPc, rawOrder, rawResults, query, maxResults, allResults, output>>
    /\ UNCHANGED <<orchVars, urlVars, planVars, sxVars, llmVars, wsVars>>

\* url in seen_urls, not a higher priority: continue
DedupKeep ==
    /\ InDedupLoop
    /\ CurrentUrl \in DOMAIN seenUrls
    /\ ~ReplacesExisting(Current, seenUrls[CurrentUrl])
    /\ idx' = idx + 1
    /\ steps' = Append(steps, "keep")
    /\ UNCHANGED <<yPc, rawOrder, rawResults, query, maxResults, allResults,
                   seenUrls, unique, output>>
    /\ UNCHANGED <<orchVars, urlVars, planVars, sxVars, llmVars, wsVars>>

\* new url, snippet similar to an accepted result's: is_duplicate
DedupDiscard ==
    /\ InDedupLoop
    /\ CurrentUrl \notin DOMAIN seenUrls
    /\ \E i \in 1..Len(unique) : IsContentSimilar(Current.snippet, unique[i].snippet)
    /\ idx' = idx + 1
    /\ steps' = Append(steps, "discard")
    /\ UNCHANGED <<yPc, rawOrder, rawResults, query, maxResults, allResults,
                   seenUrls, unique, output>>
    /\ UNCHANGED <<orchVars, urlVars, planVars, sxVars, llmVars, wsVars>>

\* new url, no similar snippet: accept
DedupAccept ==
    /\ InDedupLoop
    /\ CurrentUrl \notin DOMAIN seenUrls
    /\ \A i \in 1..Len(unique) : ~IsContentSimilar(Current.snippet, unique[i].snippet)
    /\ unique' = Append(unique, Current)
    /\ seenUrls' = (CurrentUrl :> Current) @@ seenUrls
    /\ idx' = idx + 1
    /\ steps' = Append(steps, "accept")
    /\ UNCHANGED <<yPc, rawOrder, rawResults, query, maxResults, allResults, output>>
    /\ UNCHANGED <<orchVars, urlVars, planVars, sxVars, llmVars, wsVars>>

\* _deduplicate returns; steps 3 to 5 and the return of synthesize
SynthFinish ==
    /\ yPc = "dedup"
    /\ idx = Len(allResults)
    /\ output' = SynthesisOutput(query, allResults, unique, rawResults, maxResults)
    /\ yPc' = "done"
    /\ UNCHANGED <<rawOrder, rawResults, query, maxResults, allResults, idx,
                   seenUrls, unique, steps>>
    /\ UNCHANGED <<orchVars, urlVars, planVars, sxVars, llmVars, wsVars>>

NextSynth ==
    \/ SynthFlatten
    \/ DedupReplace
    \/ DedupKeep
    \/ DedupDiscard
    \/ DedupAccept
    \/ SynthFinish

(***************************************************************************)
(* QueryProcessor: text helpers                                            *)
(***************************************************************************)
\* the characters \w matches
WordChars ==
    { "a", "b", "c", "d", "e", "f", "g", "h", "i", "j", "k", "l", "m",
      "n", "o", "p", "q", "r", "s", "t", "u", "v", "w", "x", "y", "z",
      "A", "B", "C", "D", "E", "F", "G", "H", "I", "J", "K", "L", "M",
      "N", "O", "P", "Q", "R", "S", "T", "U", "V", "W", "X", "Y", "Z",
      "0", "1", "2", "3", "4", "5", "6", "7", "8", "9", "_" }

\* the characters str.strip() removes
Whitespace == { " ", "\t", "\n", "\r" }

RECURSIVE LStripSet(_, _)
\* str.lstrip(chars)
LStripSet(s, chars) ==
    IF s # <<>> /\ s[1] \in chars THEN LStripSet(Tail(s), chars) ELSE s

RECURSIVE RStripSet(_, _)
\* str.rstrip(chars)
RStripSet(s, chars) ==
    IF s # <<>> /\ s[Len(s)] \in chars THEN RStripSet(SubSeq(s, 1, Len(s) - 1), chars) ELSE s

\* str.strip()
Strip(s) == RStripSet(LStripSet(s, Whitespace), Whitespace)

\* s continues with w at position i
MatchesAt(s, i, w) == i + Len(w) - 1 <= Len(s) /\ SubSeq(s, i, i + Len(w) - 1) = w

\* re.search(r'\b(?:w)\b', s): w occurs in s between word boundaries
WordBoundaryMatch(s, w) ==
    \E i \in 1..Len(s) :
        /\ MatchesAt(s, i, w)
        /\ i = 1 \/ s[i - 1] \notin WordChars
        /\ i + Len(w) > Len(s) \/ s[i + Len(w)] \notin WordChars

RECURSIVE Tokens(_, _, _)
\* re.findall(r'\b\w+\b', s): the maximal runs of word characters from
\* position i on, cur being the run in progress
Tokens(s, i, cur) ==
    LET flush == IF cur = <<>> THEN <<>> ELSE <<cur>>
    IN IF i > Len(s) THEN flush
       ELSE IF s[i] \in WordChars THEN Tokens(s, i + 1, Append(cur, s[i]))
       ELSE flush \o Tokens(s, i + 1, <<>>)

RECURSIVE Join(_, _)
\* sep.join(words)
Join(words, sep) ==
    IF words = <<>> THEN <<>>
    ELSE IF Len(words) = 1 THEN words[1]
    ELSE words[1] \o sep \o Join(Tail(words), sep)

\* seq[-n:]
SliceSuffix(seq, n) == SubSeq(seq, Len(seq) - Min(n, Len(seq)) + 1, Len(seq))

(***************************************************************************)
(* QueryProcessor                                                          *)
(***************************************************************************)
\* self.entity_patterns, in dict order: the alternatives of each pattern
EntityPatterns ==
    << [intent |-> "person",
        words |-> {<<"w", "h", "o">>, <<"p", "e", "r", "s", "o", "n">>, <<"p", "e", "o", "p", "l", "e">>, <<"s", "c", "i", "e", "n", "t", "i", "s", "t">>, <<"a", "r", "t", "i", "s", "t">>, <<"l", "e", "a", "d", "e", "r">>}],
       [intent |-> "location",
        words |-> {<<"w", "h", "e", "r", "e">>, <<"p", "l", "a", "c", "e">>, <<"c", "i", "t", "y">>, <<"c", "o", "u", "n", "t", "r", "y">>, <<"l", "o", "c", "a", "t", "i", "o", "n">>}],
       [intent |-> "time",
        words |-> {<<"w", "h", "e", "n">>, <<"d", "a", "t", "e">>, <<"y", "e", "a", "r">>, <<"t", "i", "m", "e">>, <<"p", "e", "r", "i", "o", "d">>, <<"a", "g", "e">>, <<"e", "r", "a">>}],
       [intent |-> "definition",
        words |-> {<<"w", "h", "a", "t", " ", "i", "s">>, <<"d", "e", "f", "i", "n", "e">>, <<"m", "e", "a", "n", "i", "n", "g">>, <<"d", "e", "f", "i", "n", "i", "t", "i", "o", "n">>}],
       [intent |-> "how",
        words |-> {<<"h", "o", "w">>, <<"p", "r", "o", "c", "e", "s", "s">>, <<"m", "e", "t", "h", "o", "d">>, <<"w", "a", "y">>}],
       [intent |-> "why",
        words |-> {<<"w", "h", "y">>, <<"r", "e", "a", "s", "o", "n">>, <<"c", "a", "u", "s", "e">>, <<"p", "u", "r", "p", "o", "s", "e">>}] >>

\* _detect_intent: the first category one of whose alternatives occurs
DetectIntent(q) ==
    LET hit(k) == \E w \in EntityPatterns[k].words : WordBoundaryMatch(Lower(q), w)
    IN IF \E k \in 1..Len(EntityPatterns) : hit(k)
       THEN EntityPatterns[CHOOSE k \in 1..Len(EntityPatterns) :
                               hit(k) /\ \A j \in 1..(k - 1) : ~hit(j)].intent
       ELSE "general"

StopWords ==
    {
    <<"a">>, <<"a", "n">>, <<"t", "h", "e">>,
    <<"i", "s">>, <<"a", "r", "e">>, <<"w", "a", "s">>,
    <<"w", "e", "r", "e">>, <<"b", "e">>, <<"b", "e", "e", "n">>,
    <<"b", "e", "i", "n", "g">>, <<"h", "a", "v", "e">>, <<"h", "a", "s">>,
    <<"h", "a", "d">>, <<"d", "o">>, <<"d", "o", "e", "s">>,
    <<"d", "i", "d">>, <<"w", "h", "a", "t">>, <<"w", "h", "i", "c", "h">>,
    <<"w", "h", "o">>, <<"w", "h", "e", "n">>, <<"w", "h", "e", "r", "e">>,
    <<"w", "h", "y">>, <<"h", "o", "w">>, <<"a", "n", "d">>,
    <<"o", "r">>, <<"b", "u", "t">>, <<"i", "n">>,
    <<"o", "n">>, <<"a", "t">>, <<"t", "o">>,
    <<"f", "o", "r">>, <<"o", "f">>, <<"w", "i", "t", "h">>,
    <<"f", "r", "o", "m">>, <<"a", "b", "o", "u", "t">>, <<"c", "a", "n">>,
    <<"c", "o", "u", "l", "d">>, <<"s", "h", "o", "u", "l", "d">>, <<"w", "o", "u", "l", "d">> }

\* _extract_keywords
ExtractKeywords(q) ==
    SelectSeq(Tokens(Lower(q), 1, <<>>), LAMBDA w : w \notin StopWords /\ Len(w) > 2)

\* the prefixes of the patterns of _extract_main_term, in order, and the
\* optional articles of the first
MainTermPrefixes == << [prefix |-> <<"w", "h", "a", "t", " ", "i", "s", " ">>, articles |-> <<<<"a", " ">>, <<"a", "n", " ">>, <<"t", "h", "e", " ">>>>],
                       [prefix |-> <<"d", "e", "f", "i", "n", "e", " ">>, articles |-> <<>>],
                       [prefix |-> <<"e", "x", "p", "l", "a", "i", "n", " ">>, articles |-> <<>>] >>

\* (.+?)(?:\?|$) from position t: at least one character, up to the next "?"
\* or the end
LazyGroup(s, t) ==
    LET k == CHOOSE k \in t..Len(s) :
                 /\ k = Len(s) \/ s[k + 1] = "?"
                 /\ \A j \in t..(k - 1) : s[j + 1] # "?"
    IN SubSeq(s, t, k)

\* where group 1 starts when pattern p matches at position i (0: no match):
\* after the first article that leaves a character, else after the prefix
GroupStart(s, p, i) ==
    LET low == Lower(s)
        r == i + Len(p.prefix)
        fits(a) == MatchesAt(low, r, p.articles[a]) /\ r + Len(p.articles[a]) <= Len(s)
    IN IF ~MatchesAt(low, i, p.prefix) THEN 0
       ELSE IF \E a \in 1..Len(p.articles) : fits(a)
       THEN r + Len(p.articles[CHOOSE a \in 1..Len(p.articles) :
                                   fits(a) /\ \A b \in 1..(a - 1) : ~fits(b)])
       ELSE IF r <= Len(s) THEN r
       ELSE 0

\* re.search(pattern, query, re.IGNORECASE).group(1), or "none"
SearchMainTerm(s, p) ==
    IF \E i \in 1..Len(s) : GroupStart(s, p, i) > 0
    THEN LET i == CHOOSE i \in 1..Len(s) :
                      GroupStart(s, p, i) > 0 /\ \A j \in 1..(i - 1) : GroupStart(s, p, j) = 0
         IN [found |-> TRUE, group |-> LazyGroup(s, GroupStart(s, p, i))]
    ELSE [found |-> FALSE, group |-> <<>>]

\* _extract_main_term
ExtractMainTerm(q) ==
    IF \E k \in 1..Len(MainTermPrefixes) : SearchMainTerm(q, MainTermPrefixes[k]).found
    THEN Strip(SearchMainTerm(q, MainTermPrefixes[
             CHOOSE k \in 1..Len(MainTermPrefixes) :
                 /\ SearchMainTerm(q, MainTermPrefixes[k]).found
                 /\ \A j \in 1..(k - 1) : ~SearchMainTerm(q, MainTermPrefixes[j]).found]).group)
    ELSE <<>>

SuffixDefinition == <<" ", "d", "e", "f", "i", "n", "i", "t", "i", "o", "n">>
SuffixExplanation == <<" ", "e", "x", "p", "l", "a", "n", "a", "t", "i", "o", "n">>
SuffixExamples == <<" ", "e", "x", "a", "m", "p", "l", "e", "s">>
SuffixTutorial == <<" ", "t", "u", "t", "o", "r", "i", "a", "l">>
SuffixGuide == <<" ", "g", "u", "i", "d", "e">>
SuffixStepByStep == <<" ", "s", "t", "e", "p", " ", "b", "y", " ", "s", "t", "e", "p">>
SuffixFacts == <<" ", "f", "a", "c", "t", "s">>
SuffixOverview == <<" ", "o", "v", "e", "r", "v", "i", "e", "w">>

\* breakdown_query, lines 33-71: sub_queries before duplicates are removed
GenerateSubQueries(q) ==
    LET intent == DetectIntent(Lower(q))
        keywords == ExtractKeywords(q)
        mainTerm == ExtractMainTerm(q)
    IN IF intent = "definition"
       THEN IF mainTerm # <<>>
            THEN <<q, mainTerm \o SuffixDefinition, mainTerm \o SuffixExplanation,
                   mainTerm \o SuffixExamples>>
            ELSE <<q>>
       ELSE IF intent = "how"
       THEN <<q, q \o SuffixTutorial, q \o SuffixGuide, q \o SuffixStepByStep>>
       ELSE IF intent = "factual"
       THEN IF keywords # <<>>
            THEN <<q, Join(SlicePrefix(keywords, 3), <<" ">>), keywords[1] \o SuffixFacts>>
            ELSE <<q>>
       ELSE IF Len(keywords) > 2
       THEN <<q, Join(SlicePrefix(keywords, 2), <<" ">>), Join(SliceSuffix(keywords, 2), <<" ">>)>>
            \o [i \in 1..Min(3, Len(keywords)) |-> keywords[i] \o SuffixOverview]
       ELSE <<q>>

\* the limit of the loop and of the final slice
MaxSubQueries == 5

\* Mutant: the list is limited but duplicates are not removed.
KeepsSubQueryNoSeenTest(q, seen, uniqueQueries) == Len(uniqueQueries) < MaxSubQueries

\* the test of the loop at line 78
KeepsSubQuery(q, seen, uniqueQueries) ==
    Strip(Lower(q)) \notin seen /\ Len(uniqueQueries) < MaxSubQueries

RECURSIVE RemoveDuplicates(_, _, _, _)
\* lines 74-80, from sub_queries[i] on
RemoveDuplicates(subs, i, seen, uniqueQueries) ==
    IF i > Len(subs) THEN uniqueQueries
    ELSE IF KeepsSubQuery(subs[i], seen, uniqueQueries)
    THEN RemoveDuplicates(subs, i + 1, seen \cup {Strip(Lower(subs[i]))},
                          Append(uniqueQueries, subs[i]))
    ELSE RemoveDuplicates(subs, i + 1, seen, uniqueQueries)

\* QueryProcessor.breakdown_query
BreakdownQuery(q) ==
    SlicePrefix(RemoveDuplicates(GenerateSubQueries(q), 1, {}, <<>>), MaxSubQueries)

(***************************************************************************)
(* QueryProcessor.breakdown_query, one call                                *)
(***************************************************************************)
\* The words queries are written with: the three definition prefixes, a
\* person word, a how word, an article and three subject words.
PlannerVocabulary ==
    { <<"W", "h", "a", "t", " ", "i", "s">>, <<"d", "e", "f", "i", "n", "e">>, <<"e", "x", "p", "l", "a", "i", "n">>,
      <<"w", "h", "o">>, <<"h", "o", "w">>, <<"a">>,
      <<"d", "n", "a">>, <<"c", "e", "l", "l">>, <<"g", "e", "n", "e">> }

\* A query ends with or without a question mark.
QuerySuffixes == { <<>>, <<"?">> }

\* Number of vocabulary words in a query.
MaxWords == 3

WordLists == UNION { [1..k -> PlannerVocabulary] : k \in 0..MaxWords }

InitPlan ==
    /\ planPc = "start"
    /\ planWords \in WordLists
    /\ \E suffix \in QuerySuffixes : planQuery = Join(planWords, <<" ">>) \o suffix
    /\ planSubs = <<>>
    /\ planIdx = 0
    /\ planSeen = {}
    /\ planUnique = <<>>
    /\ planOut = <<>>

\* lines 33-71: intent, keywords and the sub-queries of the intent's branch
PlanGenerate ==
    /\ planPc = "start"
    /\ planSubs' = GenerateSubQueries(planQuery)
    /\ planPc' = "dedup"
    /\ UNCHANGED <<planWords, planQuery, planIdx, planSeen, planUnique, planOut>>
    /\ UNCHANGED <<orchVars, urlVars, synthVars, sxVars, llmVars, wsVars>>

\* lines 76-80, the sub-query is kept
PlanKeep ==
    /\ planPc = "dedup"
    /\ planIdx < Len(planSubs)
    /\ KeepsSubQuery(planSubs[planIdx + 1], planSeen, planUnique)
    /\ planUnique' = Append(planUnique, planSubs[planIdx + 1])
    /\ planSeen' = planSeen \cup {Strip(Lower(planSubs[planIdx + 1]))}
    /\ planIdx' = planIdx + 1
    /\ UNCHANGED <<planPc, planWords, planQuery, planSubs, planOut>>
    /\ UNCHANGED <<orchVars, urlVars, synthVars, sxVars, llmVars, wsVars>>

\* lines 76-78, the sub-query is a duplicate or the list is full
PlanSkip ==
    /\ planPc = "dedup"
    /\ planIdx < Len(planSubs)
    /\ ~KeepsSubQuery(planSubs[planIdx + 1], planSeen, planUnique)
    /\ planIdx' = planIdx + 1
    /\ UNCHANGED <<planPc, planWords, planQuery, planSubs, planSeen, planUnique, planOut>>
    /\ UNCHANGED <<orchVars, urlVars, synthVars, sxVars, llmVars, wsVars>>

\* line 82: return unique_queries[:5]
PlanReturn ==
    /\ planPc = "dedup"
    /\ planIdx = Len(planSubs)
    /\ planOut' = SlicePrefix(planUnique, MaxSubQueries)
    /\ planPc' = "returned"
    /\ UNCHANGED <<planWords, planQuery, planSubs, planIdx, planSeen, planUnique>>
    /\ UNCHANGED <<orchVars, urlVars, synthVars, sxVars, llmVars, wsVars>>

NextPlan ==
    \/ PlanGenerate
    \/ PlanKeep
    \/ PlanSkip
    \/ PlanReturn

(***************************************************************************)
(* SearXNGEngine.search                                                    *)
(***************************************************************************)
\* SearXNGEngine.INSTANCES
Instances ==
    { "https://searx.work", "https://search.ononoki.org", "https://searx.be",
      "https://searx.aicamp.cn", "https://searx.thegpm.org",
      "https://search.mdosch.de", "https://opensearch.vnet.solutions" }

\* for _ in range(3)
MaxAttempts == 3

\* settings.max_results_per_engine, the max_results the orchestrator passes
MaxResultsPerEngine == 10

\* settings.searxng_instance
SearxngInstance == "https://searx.work"

\* SearXNGEngine.__init__: self.instance_url = instance_url or self.INSTANCES[0]
InstanceUrl(configured) ==
    IF configured = "" THEN "https://searx.work" ELSE configured

\* The values the constructor can be given: nothing, the default of the
\* settings, or an instance of the operator's own.
ConfiguredInstances == { "", SearxngInstance, "https://searx.example.org" }

\* Items of data['results'] (dicts): one with every key, one without 'url'.
ItemFull == [title |-> "T", content |-> "c", url |-> "https://e.org/p"]
ItemNoUrl == [title |-> "U", content |-> "d"]

\* What one GET can come to: an exception (connection error, timeout, a body
\* that is not JSON), a non-success status, or status 200 with 0 to 2 items.
SxResponses ==
    { [kind |-> "exception", status |-> 0, items |-> <<>>],
      [kind |-> "response", status |-> 503, items |-> <<>>] }
    \cup { [kind |-> "response", status |-> 200, items |-> body] :
             body \in { <<>>, <<ItemFull>>, <<ItemNoUrl>>,
                        <<ItemFull, ItemNoUrl>>, <<ItemFull, ItemFull>> } }

\* dict.get(key, default)
ItemGet(item, key, default) ==
    IF key \in DOMAIN item THEN item[key] ELSE default

\* BaseSearchEngine._create_result: SearchResult(source=self.name, **kwargs)
CreateResult(name, title, snippet, url) ==
    [title |-> title, snippet |-> snippet, url |-> url, source |-> name]

\* _parse_results: one result per item of data['results'][:max_results]
ParseResults(name, items, maxResultsArg) ==
    [k \in 1..Min(Len(items), maxResultsArg) |->
        CreateResult(name,
                     ItemGet(items[k], "title", "No title"),
                     ItemGet(items[k], "content", ""),
                     ItemGet(items[k], "url", ""))]

\* Mutant: any status 200 ends the search, also with no results.
AttemptReturnsOnStatus(host, resp) == resp.kind = "response" /\ resp.status = 200

\* lines 48-53: the attempt ends the search with its results
AttemptReturns(host, resp) ==
    /\ resp.kind = "response"
    /\ resp.status = 200
    /\ ParseResults("SearXNG", resp.items, MaxResultsPerEngine) # <<>>

InitSx ==
    /\ sxPc = "start"
    /\ sxAttempts = <<>>
    /\ sxOut = <<>>
    /\ \E configured \in ConfiguredInstances : sxInstanceUrl = InstanceUrl(configured)

\* one iteration of the loop that returns the parsed results
SxAttemptReturns ==
    /\ sxPc \in {"start", "trying"}
    /\ Len(sxAttempts) < MaxAttempts
    /\ \E host \in Instances, resp \in SxResponses :
          /\ AttemptReturns(host, resp)
          /\ sxAttempts' = Append(sxAttempts, [host |-> host, resp |-> resp])
          /\ sxOut' = ParseResults("SearXNG", resp.items, MaxResultsPerEngine)
    /\ sxPc' = "returned"
    /\ UNCHANGED <<sxInstanceUrl, orchVars, urlVars, synthVars, planVars, llmVars, wsVars>>

\* one iteration that goes on to the next: exception caught, status not 200,
\* or no results
SxAttemptFails ==
    /\ sxPc \in {"start", "trying"}
    /\ Len(sxAttempts) < MaxAttempts
    /\ \E host \in Instances, resp \in SxResponses :
          /\ ~AttemptReturns(host, resp)
          /\ sxAttempts' = Append(sxAttempts, [host |-> host, resp |-> resp])
    /\ sxPc' = "trying"
    /\ UNCHANGED sxOut
    /\ UNCHANGED <<sxInstanceUrl, orchVars, urlVars, synthVars, planVars, llmVars, wsVars>>

\* line 60: return [] after the loop
SxReturnEmpty ==
    /\ sxPc \in {"start", "trying"}
    /\ Len(sxAttempts) >= MaxAttempts
    /\ sxOut' = <<>>
    /\ sxPc' = "returned"
    /\ UNCHANGED sxAttempts
    /\ UNCHANGED <<sxInstanceUrl, orchVars, urlVars, synthVars, planVars, llmVars, wsVars>>

NextSx ==
    \/ SxAttemptReturns
    \/ SxAttemptFails
    \/ SxReturnEmpty

(***************************************************************************)
(* OllamaQueryProcessor                                                    *)
(***************************************************************************)
\* What httpx.get(".../api/tags", timeout=2) can come to.
ProbeOutcomes ==
    { [kind |-> "exception", status |-> 0],
      [kind |-> "response", status |-> 200],
      [kind |-> "response", status |-> 500] }

\* Mutant: any response counts as available, whatever its status.
CheckOllamaAvailableAnyStatus(outcome) == outcome.kind = "response"

\* _check_ollama_available
CheckOllamaAvailable(outcome) == outcome.kind = "response" /\ outcome.status = 200

RECURSIVE SplitLines(_, _, _)
\* str.split("\n") from position i on, cur being the line in progress
SplitLines(s, i, cur) ==
    IF i > Len(s) THEN <<cur>>
    ELSE IF s[i] = "\n" THEN <<cur>> \o SplitLines(s, i + 1, <<>>)
    ELSE SplitLines(s, i + 1, Append(cur, s[i]))

\* line.strip().lstrip("0123456789.-) ")
CleanLine(line) ==
    LStripSet(Strip(line),
              {"0", "1", "2", "3", "4", "5", "6", "7", "8", "9", ".", "-", ")", " "})

RECURSIVE AppendCleaned(_, _, _)
\* lines 175-178, from lines[i] on
AppendCleaned(lines, i, subs) ==
    IF i > Len(lines) THEN subs
    ELSE IF CleanLine(lines[i]) # <<>> /\ Len(subs) < 5
    THEN AppendCleaned(lines, i + 1, Append(subs, CleanLine(lines[i])))
    ELSE AppendCleaned(lines, i + 1, subs)

\* lines 171-180: the list built from the text of the LLM's answer
LlmSubQueries(q, text) ==
    SlicePrefix(AppendCleaned(SplitLines(Strip(text), 1, <<>>), 1, <<q>>), 5)

\* The answers of the LLM: numbered lines, nothing, and more lines than fit.
LlmTexts ==
    { <<"1", ".", " ", "d", "n", "a", " ", "u", "s", "e", "\n", "-", " ", "d", "n", "a", " ", "m", "a", "p">>,
      <<>>,
      <<"a", "\n", "b", "\n", "\n", "c", "\n", "d", "\n", "e">> }

\* What the POST to /api/generate can come to: an exception (timeout,
\* connection error), a non-success status, a body that is not JSON, and a
\* JSON object whose "response" is missing, a string, or not a string.
LlmReplies ==
    { [kind |-> "exception", status |-> 0, json |-> "none", response |-> "none", text |-> <<>>],
      [kind |-> "response", status |-> 500, json |-> "none", response |-> "none", text |-> <<>>],
      [kind |-> "response", status |-> 200, json |-> "invalid", response |-> "none", text |-> <<>>],
      [kind |-> "response", status |-> 200, json |-> "object", response |-> "missing", text |-> <<>>],
      [kind |-> "response", status |-> 200, json |-> "object", response |-> "number", text |-> <<>>] }
    \cup { [kind |-> "response", status |-> 200, json |-> "object", response |-> "string",
            text |-> t] : t \in LlmTexts }

\* the reply field of a call that sent no request
NoReply == [kind |-> "none", status |-> 0, json |-> "none", response |-> "none", text |-> <<>>]

\* Mutant: any HTTP response is parsed, whatever its status.
LlmAnswersOnAnyResponse(reply) == reply.kind = "response"

\* the call returns at line 180: status 200, a JSON object, and a "response"
\* that is absent (default "") or a string
LlmAnswers(reply) ==
    /\ reply.kind = "response"
    /\ reply.status = 200
    /\ reply.json = "object"
    /\ reply.response \in {"missing", "string"}

\* The queries the planner is called with.
LlmQueries == { <<"d", "n", "a">>, <<"W", "h", "a", "t", " ", "i", "s", " ", "d", "n", "a">>, <<"d", "n", "a", " ", "c", "e", "l", "l", " ", "g", "e", "n", "e">> }

\* Number of breakdown_query calls in the planner's lifetime.
MaxCalls == 2

InitLlm ==
    /\ llmPc = "new"
    /\ useOllama = FALSE
    /\ probes = 0
    /\ llmCalls = 0
    /\ probeOutcome = EmptyMap
    /\ llmLog = <<>>

\* OllamaQueryProcessor.__init__
OllamaConstruct ==
    /\ llmPc = "new"
    /\ \E outcome \in ProbeOutcomes :
          /\ probeOutcome' = outcome
          /\ useOllama' = CheckOllamaAvailable(outcome)
    /\ probes' = probes + 1
    /\ llmPc' = "ready"
    /\ UNCHANGED <<llmCalls, llmLog>>
    /\ UNCHANGED <<orchVars, urlVars, synthVars, planVars, sxVars, wsVars>>

\* lines 146-147: not self.use_ollama
OllamaBreakdownDeterministic ==
    /\ llmPc = "ready"
    /\ Len(llmLog) < MaxCalls
    /\ ~useOllama
    /\ \E q \in LlmQueries :
          llmLog' = Append(llmLog, [query |-> q, contacted |-> FALSE, reply |-> NoReply,
                                    out |-> BreakdownQuery(q)])
    /\ UNCHANGED <<llmPc, useOllama, probes, llmCalls, probeOutcome>>
    /\ UNCHANGED <<orchVars, urlVars, synthVars, planVars, sxVars, wsVars>>

\* lines 149-180: the LLM answers and its lines are returned
OllamaBreakdownAnswered ==
    /\ llmPc = "ready"
    /\ Len(llmLog) < MaxCalls
    /\ useOllama
    /\ \E q \in LlmQueries, reply \in LlmReplies :
          /\ LlmAnswers(reply)
          /\ llmLog' = Append(llmLog, [query |-> q, contacted |-> TRUE, reply |-> reply,
                                       out |-> LlmSubQueries(q, reply.text)])
    /\ llmCalls' = llmCalls + 1
    /\ UNCHANGED <<llmPc, useOllama, probes, probeOutcome>>
    /\ UNCHANGED <<orchVars, urlVars, synthVars, planVars, sxVars, wsVars>>

\* lines 149-186: the request or the parsing fails, or the status is not 200
OllamaBreakdownFallback ==
    /\ llmPc = "ready"
    /\ Len(llmLog) < MaxCalls
    /\ useOllama
    /\ \E q \in LlmQueries, reply \in LlmReplies :
          /\ ~LlmAnswers(reply)
          /\ llmLog' = Append(llmLog, [query |-> q, contacted |-> TRUE, reply |-> reply,
                                       out |-> BreakdownQuery(q)])
    /\ llmCalls' = llmCalls + 1
    /\ UNCHANGED <<llmPc, useOllama, probes, probeOutcome>>
    /\ UNCHANGED <<orchVars, urlVars, synthVars, planVars, sxVars, wsVars>>

NextLlm ==
    \/ OllamaConstruct
    \/ OllamaBreakdownDeterministic
    \/ OllamaBreakdownAnswered
    \/ OllamaBreakdownFallback

(***************************************************************************)
(* websocket_process and the ConnectionManager                             *)
(***************************************************************************)
\* Number of websocket connections made to /ws/process.
NumConnections == 2

Connections == 1..NumConnections

InitWs ==
    /\ activeConnections = <<>>
    /\ wsPc = [c \in Connections |-> "new"]
    /\ wsClient = [c \in Connections |-> "open"]

\* the stage that follows a stage of one pass of the while loop
NextStage(stage) ==
    CASE stage = "breaking" -> "searching"
      [] stage = "searching" -> "synthesizing"
      [] stage = "synthesizing" -> "receiving"

\* The client closes the connection or is lost.
WsClientGoes(c) ==
    /\ wsPc[c] # "ended"
    /\ wsClient[c] = "open"
    /\ wsClient' = [wsClient EXCEPT ![c] = "gone"]
    /\ UNCHANGED <<activeConnections, wsPc>>
    /\ UNCHANGED <<orchVars, urlVars, synthVars, planVars, sxVars, llmVars>>

\* manager.connect: accept, then append; a failed accept raises before the
\* try statement is entered
WsConnect(c) ==
    /\ wsPc[c] = "new"
    /\ IF wsClient[c] = "open"
       THEN /\ activeConnections' = Append(activeConnections, c)
            /\ wsPc' = [wsPc EXCEPT ![c] = "receiving"]
       ELSE /\ wsPc' = [wsPc EXCEPT ![c] = "ended"]
            /\ UNCHANGED activeConnections
    /\ UNCHANGED wsClient
    /\ UNCHANGED <<orchVars, urlVars, synthVars, planVars, sxVars, llmVars>>

\* receive_json returns a request: an empty query goes back to receiving,
\* another one is followed by the first status message; a message that is
\* not JSON raises
WsReceive(c) ==
    /\ wsPc[c] = "receiving"
    /\ wsClient[c] = "open"
    /\ \E received \in {"empty query", "query", "not json"} :
          wsPc' = [wsPc EXCEPT ![c] =
                     CASE received = "empty query" -> "receiving"
                       [] received = "query" -> "breaking"
                       [] received = "not json" -> "reporting"]
    /\ UNCHANGED <<activeConnections, wsClient>>
    /\ UNCHANGED <<orchVars, urlVars, synthVars, planVars, sxVars, llmVars>>

\* one stage of the pass (breakdown, search, synthesis) and the messages it
\* sends, done without an exception
WsStage(c) ==
    /\ wsPc[c] \in {"breaking", "searching", "synthesizing"}
    /\ wsClient[c] = "open"
    /\ wsPc' = [wsPc EXCEPT ![c] = NextStage(wsPc[c])]
    /\ UNCHANGED <<activeConnections, wsClient>>
    /\ UNCHANGED <<orchVars, urlVars, synthVars, planVars, sxVars, llmVars>>

\* except WebSocketDisconnect: manager.disconnect(websocket).  receive_json
\* raises it when the client is gone; send_json raises it or another
\* exception, depending on the server underneath.
WsDisconnect(c) ==
    /\ wsPc[c] \in {"receiving", "breaking", "searching", "synthesizing"}
    /\ wsClient[c] = "gone"
    /\ activeConnections' = RemoveFirst(activeConnections, c)
    /\ wsPc' = [wsPc EXCEPT ![c] = "ended"]
    /\ UNCHANGED wsClient
    /\ UNCHANGED <<orchVars, urlVars, synthVars, planVars, sxVars, llmVars>>

\* except Exception is entered: a stage raised (the planner, the search or
\* the synthesis failed, or a send to a lost client raised something other
\* than WebSocketDisconnect)
WsError(c) ==
    /\ wsPc[c] \in {"breaking", "searching", "synthesizing"}
    /\ wsPc' = [wsPc EXCEPT ![c] = "reporting"]
    /\ UNCHANGED <<activeConnections, wsClient>>
    /\ UNCHANGED <<orchVars, urlVars, synthVars, planVars, sxVars, llmVars>>

\* lines 303-307: the error message is sent, then manager.disconnect
WsErrorSent(c) ==
    /\ wsPc[c] = "reporting"
    /\ wsClient[c] = "open"
    /\ activeConnections' = RemoveFirst(activeConnections, c)
    /\ wsPc' = [wsPc EXCEPT ![c] = "ended"]
    /\ UNCHANGED wsClient
    /\ UNCHANGED <<orchVars, urlVars, synthVars, planVars, sxVars, llmVars>>

\* lines 303-306: send_json raises inside the except clause; the exception
\* leaves the handler and line 307 is not reached
WsErrorSendFails(c) ==
    /\ wsPc[c] = "reporting"
    /\ wsClient[c] = "gone"
    /\ wsPc' = [wsPc EXCEPT ![c] = "ended"]
    /\ UNCHANGED <<activeConnections, wsClient>>
    /\ UNCHANGED <<orchVars, urlVars, synthVars, planVars, sxVars, llmVars>>

NextWs ==
    \E c \in Connections :
        \/ WsClientGoes(c)
        \/ WsConnect(c)
        \/ WsReceive(c)
        \/ WsStage(c)
        \/ WsDisconnect(c)
        \/ WsError(c)
        \/ WsErrorSent(c)
        \/ WsErrorSendFails(c)

(***************************************************************************)
(* Specifications                                                          *)
(***************************************************************************)
IdleUrl ==
    /\ urlPc = "idle" /\ urlA = <<>> /\ urlB = <<>>
    /\ normA = <<>> /\ normB = <<>> /\ normAA = <<>>

IdleSynth ==
    /\ yPc = "idle" /\ rawOrder = <<>> /\ rawResults = EmptyMap /\ query = <<>>
    /\ maxResults = 0 /\ allResults = <<>> /\ idx = 0 /\ seenUrls = EmptyMap
    /\ unique = <<>> /\ steps = <<>> /\ output = EmptyMap

IdleOrch ==
    /\ profile = EmptyMap /\ subQueries = <<>> /\ bPc = "off" /\ bQuery = EmptyMap
    /\ bTask = EmptyMap /\ bMap = EmptyMap /\ sPc = "off" /\ sQuery = EmptyMap
    /\ sTask = EmptyMap /\ tasks = {} /\ done = {} /\ emitted = <<>>
    /\ settleSeq = <<>> /\ roundOf = EmptyMap /\ round = 0

IdlePlan ==
    /\ planPc = "idle" /\ planWords = <<>> /\ planQuery = <<>> /\ planSubs = <<>>
    /\ planIdx = 0 /\ planSeen = {} /\ planUnique = <<>> /\ planOut = <<>>

IdleSx ==
    /\ sxPc = "idle"
    /\ sxAttempts = <<>>
    /\ sxOut = <<>>
    /\ sxInstanceUrl = InstanceUrl(SearxngInstance)

IdleLlm ==
    /\ llmPc = "idle" /\ useOllama = FALSE /\ probes = 0 /\ llmCalls = 0
    /\ probeOutcome = EmptyMap /\ llmLog = <<>>

IdleWs == activeConnections = <<>> /\ wsPc = EmptyMap /\ wsClient = EmptyMap

IdleRest == IdlePlan /\ IdleSx /\ IdleLlm /\ IdleWs

Init == InitOrch /\ IdleUrl /\ IdleSynth /\ IdleRest

Next == NextOrch

Spec == Init /\ [][Next]_vars

\* The event loop runs every ready coroutine and fires every timer, and the
\* consumer drains the generator.
FairSpec == Spec /\ WF_vars(Next)

UrlInit == IdleOrch /\ InitUrl /\ IdleSynth /\ IdleRest

UrlSpec == UrlInit /\ [][NextUrl]_vars

SynthInit == IdleOrch /\ IdleUrl /\ InitSynth /\ IdleRest

SynthSpec == SynthInit /\ [][NextSynth]_vars

PlanInit == IdleOrch /\ IdleUrl /\ IdleSynth /\ InitPlan /\ IdleSx /\ IdleLlm /\ IdleWs

PlanSpec == PlanInit /\ [][NextPlan]_vars

SxInit == IdleOrch /\ IdleUrl /\ IdleSynth /\ IdlePlan /\ InitSx /\ IdleLlm /\ IdleWs

SxSpec == SxInit /\ [][NextSx]_vars

LlmInit == IdleOrch /\ IdleUrl /\ IdleSynth /\ IdlePlan /\ IdleSx /\ InitLlm /\ IdleWs

LlmSpec == LlmInit /\ [][NextLlm]_vars

WsInit == IdleOrch /\ IdleUrl /\ IdleSynth /\ IdlePlan /\ IdleSx /\ IdleLlm /\ InitWs

WsSpec == WsInit /\ [][NextWs]_vars

(***************************************************************************)
(* Properties of the orchestrator (Spec, FairSpec)                         *)
(***************************************************************************)
TimedOut(e, timeout) == profile[e].latency > timeout
Failed(e, timeout) == TimedOut(e, timeout) \/ profile[e].raises

EmittedEngines == { emitted[i].engine : i \in 1..Len(emitted) }
EmitIndex(e) == CHOOSE i \in 1..Len(emitted) : emitted[i].engine = e
Settled == Range(settleSeq)
SettleIndex(e) == CHOOSE i \in 1..Len(settleSeq) : settleSeq[i] = e

\* C1: when search_all has returned, every engine whose search exceeded the
\* per-engine timeout maps to the empty sequence, and every engine whose
\* search returned in time maps to exactly the sequence it returned.
C1_BatchTimeoutIsolation ==
    bPc = "returned" =>
        \A e \in Engines :
            /\ e \in DOMAIN bMap
            /\ TimedOut(e, SearchTimeout) => bMap[e] = <<>>
            /\ ~Failed(e, SearchTimeout) => bMap[e] = profile[e].results

\* search_all has returned; one engine timed out and maps to nothing while
\* another delivered its results.
C1_Witness ==
    /\ bPc = "returned"
    /\ \E e, f \in Engines :
          /\ TimedOut(e, SearchTimeout) /\ bMap[e] = <<>>
          /\ ~Failed(f, SearchTimeout) /\ bMap[f] = profile[f].results /\ bMap[f] # <<>>

\* C2: search_all never raises, and the map it returns has exactly the
\* registered engines as keys: an engine that raised or timed out maps to
\* the empty sequence, every other engine to its own results.
C2_BatchNeverFails ==
    /\ bPc # "raised"
    /\ bPc = "returned" =>
          /\ DOMAIN bMap = Engines
          /\ \A e \in Engines :
                bMap[e] = IF Failed(e, SearchTimeout) THEN <<>> ELSE profile[e].results

\* search_all has returned with one engine that raised, one that timed out
\* and one that delivered results.
C2_Witness ==
    /\ bPc = "returned"
    /\ DOMAIN bMap = Engines
    /\ \E e, f, g \in Engines :
          /\ profile[e].raises /\ bMap[e] = <<>>
          /\ TimedOut(f, SearchTimeout) /\ bMap[f] = <<>>
          /\ ~Failed(g, SearchTimeout) /\ bMap[g] # <<>>

\* One pair per registered engine, a failed or timed-out engine with the
\* empty sequence and every other engine with its own results.
OnePairPerEngine ==
    /\ Len(emitted) = Cardinality(Engines)
    /\ EmittedEngines = Engines
    /\ \A i \in 1..Len(emitted) :
          emitted[i].results =
              IF Failed(emitted[i].engine, StreamTimeout) THEN <<>>
              ELSE profile[emitted[i].engine].results

NoEngineEmittedTwice ==
    \A i, j \in 1..Len(emitted) : emitted[i].engine = emitted[j].engine => i = j

\* C3: the stream never emits an engine twice, it terminates, and when it has
\* terminated it has emitted exactly one pair per registered engine, failed
\* and timed-out engines with the empty sequence.
C3_StreamOnePairPerEngine ==
    /\ [](NoEngineEmittedTwice /\ (sPc = "finished" => OnePairPerEngine))
    /\ <>(sPc = "finished")

\* The stream has terminated, having emitted a failed engine with nothing
\* and another engine with results.
C3_Witness ==
    /\ sPc = "finished"
    /\ \E i, j \in 1..Len(emitted) :
          /\ Failed(emitted[i].engine, StreamTimeout) /\ emitted[i].results = <<>>
          /\ emitted[j].results # <<>>

\* C4: once both calls have completed against the same engine behaviour, the
\* results emitted by the stream number as many as the results in the map
\* search_all returned.
C4_StreamTotalEqualsBatchTotal ==
    (bPc = "returned" /\ sPc = "finished")
        => SumPairs(emitted) = SumLen(bMap, DOMAIN bMap)

\* C5, as stated: pairs are emitted in the order in which the tasks settled.
C5_EmissionFollowsSettleOrder ==
    \A i, j \in 1..Len(emitted) :
        i < j => SettleIndex(emitted[i].engine) < SettleIndex(emitted[j].engine)

\* C5, amended: a task that settled before another is collected by the same
\* asyncio.wait round or an earlier one, and every pair of an earlier round
\* is emitted before every pair of a later round.
C5_EmissionFollowsWaitRounds ==
    /\ \A a, b \in Settled :
          (SettleIndex(a) < SettleIndex(b) /\ roundOf[b] > 0)
              => (roundOf[a] > 0 /\ roundOf[a] <= roundOf[b])
    /\ \A a, b \in Engines :
          (0 < roundOf[a] /\ roundOf[a] < roundOf[b] /\ b \in EmittedEngines)
              => (a \in EmittedEngines /\ EmitIndex(a) < EmitIndex(b))

\* Two engines settled one after the other, were collected by different
\* rounds and were emitted in that order.
C5_Witness ==
    \E a, b \in EmittedEngines :
        /\ SettleIndex(a) < SettleIndex(b)
        /\ roundOf[a] < roundOf[b]
        /\ EmitIndex(a) < EmitIndex(b)

(***************************************************************************)
(* Properties of _normalize_url (UrlSpec)                                  *)
(***************************************************************************)
\* C6: normalizing a canonical URL again gives the same canonical URL.
C6_NormalizeIdempotent == urlPc = "twice" => normAA = normA

\* C7: two spellings of one address (differing in letter case, scheme,
\* leading "www.", trailing slash, query string or fragment) have the same
\* canonical URL.
C7_SpellingsShareCanonicalUrl == urlPc # "start" => normA = normB

(***************************************************************************)
(* Properties of synthesize and _deduplicate (SynthSpec)                   *)
(***************************************************************************)
Canonical(i) == NormalizeUrl(allResults[i].url)
Priority(i) == GetSourcePriority(allResults[i].source)

\* the first of the results indexed by c that have the highest priority in c
FirstOfHighestPriority(c) ==
    CHOOSE i \in c :
        \A j \in c : Priority(j) < Priority(i) \/ (Priority(j) = Priority(i) /\ i <= j)

\* C8, as stated: whenever input results share a canonical URL, the result the
\* output holds for that canonical URL has the highest priority among them.
C8_HeldIsHighestPriorityOfAll ==
    yPc = "done" =>
        \A k \in 1..Len(unique) :
            \A i \in 1..Len(allResults) :
                Canonical(i) = NormalizeUrl(unique[k].url)
                    => Priority(i) <= GetSourcePriority(unique[k].source)

\* C8, amended: at every point of the loop, the result held for a canonical
\* URL is the first of the highest-priority results processed so far that
\* have this canonical URL and were not discarded as near-duplicates.
C8_HeldIsHighestPriorityOfKept ==
    /\ Len(steps) = idx
    /\ \A k \in 1..Len(unique) :
          LET c == { i \in 1..idx : /\ Canonical(i) = NormalizeUrl(unique[k].url)
                                    /\ steps[i] # "discard" }
          IN c # {} /\ unique[k] = allResults[FirstOfHighestPriority(c)]

\* Two results share a canonical URL; the first was accepted, the second
\* replaced it and is in the output.
C8_Witness ==
    /\ yPc = "done"
    /\ \E i, j \in 1..Len(allResults) :
          /\ i < j /\ Canonical(i) = Canonical(j)
          /\ steps[i] = "accept" /\ steps[j] = "replace"
          /\ Priority(i) < Priority(j)
          /\ \E k \in 1..Len(unique) : unique[k] = allResults[j]

\* the two URLs differ only by a trailing slash
SlashVariants(u, v) == u = v \o <<"/">> \/ v = u \o <<"/">>

\* Wikipedia and DuckDuckGo returned one result each, the URLs differing only
\* by a trailing slash, and no other engine returned anything.
TrailingSlashScenario ==
    /\ Len(rawResults["Wikipedia"]) = 1
    /\ Len(rawResults["DuckDuckGo"]) = 1
    /\ \A e \in DOMAIN rawResults \ {"Wikipedia", "DuckDuckGo"} : rawResults[e] = <<>>
    /\ SlashVariants(rawResults["Wikipedia"][1].url, rawResults["DuckDuckGo"][1].url)

\* C9: in the trailing-slash scenario synthesize returns one ranked result,
\* total_unique 1, and the survivor is Wikipedia's, whichever engine is first
\* in the input map.
C9_TrailingSlashKeepsWikipedia ==
    (yPc = "done" /\ TrailingSlashScenario) =>
        /\ Len(output.results) = 1
        /\ output.total_unique = 1
        /\ output.results[1].source = "Wikipedia"
        /\ output.results[1].url = rawResults["Wikipedia"][1].url

\* The scenario with DuckDuckGo first in the input map, synthesized.
C9_Witness ==
    /\ yPc = "done"
    /\ TrailingSlashScenario
    /\ rawOrder[1] = "DuckDuckGo"
    /\ steps = <<"accept", "replace">>
    /\ output.results[1].source = "Wikipedia"

\* C10: _deduplicate never holds more results than it has processed, so its
\* output is no longer than its input and total_unique <= total_raw.
C10_DedupNeverGrows ==
    /\ Len(unique) <= idx
    /\ idx <= Len(allResults)
    /\ yPc = "done" =>
          /\ Len(unique) <= Len(allResults)
          /\ output.total_unique = Len(unique)
          /\ output.total_unique <= output.total_raw

\* A synthesis whose dedup dropped a result.
C10_Witness ==
    /\ yPc = "done"
    /\ output.total_unique < output.total_raw
    /\ output.total_unique > 0

\* the scored dedup output, before ranking
Scored == ScoreResults(query, unique, rawResults)

\* the fraction lies in [0,1]
InUnitInterval(f) == f.den > 0 /\ 0 <= f.num /\ f.num <= f.den

\* C11: every scored result has relevance, authority (in fifths), consensus
\* (in fifths) and quality (in tenths) in [0,1], and a final score in [0,1].
C11_ScoresInUnitInterval ==
    yPc = "done" =>
        \A i \in 1..Len(Scored) :
            /\ InUnitInterval(Scored[i].scores.relevance)
            /\ Scored[i].scores.authority \in 0..5
            /\ Scored[i].scores.consensus \in 0..5
            /\ Scored[i].scores.quality \in 0..10
            /\ InUnitInterval(Scored[i].final)

\* A synthesis with a result whose relevance is strictly between 0 and 1 and
\* whose authority is 1.
C11_Witness ==
    /\ yPc = "done"
    /\ \E i \in 1..Len(output.results) :
          LET r == output.results[i]
          IN /\ 0 < r.scores.relevance.num
             /\ r.scores.relevance.num < r.scores.relevance.den
             /\ r.scores.authority = 5
             /\ r.scores.quality > 0

\* the position in the dedup output of the result a scored entry was made from
PosInUnique(r) ==
    CHOOSE k \in 1..Len(unique) :
        /\ unique[k].title = r.title /\ unique[k].snippet = r.snippet
        /\ unique[k].url = r.url /\ unique[k].source = r.source

\* x ranks before y: a higher final score, or the same score and earlier in
\* the dedup output
RanksBefore(x, y) ==
    \/ ScoreLess(y, x)
    \/ ~ScoreLess(x, y) /\ PosInUnique(x) < PosInUnique(y)

\* C12: the returned results are scored dedup results in non-increasing order
\* of final score, equal scores in dedup order, and they are the first
\* max_results entries of that ranking: every result left out ranks after
\* every result returned.
C12_RankedStableAndTruncated ==
    yPc = "done" =>
        LET res == output.results
        IN /\ Len(res) = Min(maxResults, Len(unique))
           /\ \A i \in 1..Len(res) : res[i] \in Range(Scored)
           /\ \A i, j \in 1..Len(res) : i < j => RanksBefore(res[i], res[j])
           /\ \A s \in Range(Scored) \ Range(res) :
                 \A i \in 1..Len(res) : RanksBefore(res[i], s)

\* A ranking truncated to one result that ties with a result left out.
C12_Witness ==
    /\ yPc = "done"
    /\ Len(output.results) = 1
    /\ \E s \in Range(Scored) \ Range(output.results) :
          /\ ~ScoreLess(s, output.results[1])
          /\ ~ScoreLess(output.results[1], s)

\* nothing came back from any engine
AllEnginesEmpty == \A e \in DOMAIN rawResults : rawResults[e] = <<>>

\* C13: when every engine contributed the empty sequence, synthesize returns
\* (it does not raise) the summary "No results found.", no ranked results,
\* total_raw 0 and total_unique 0.
C13_AllEmptyGivesNoResultsFound ==
    /\ (AllEnginesEmpty /\ yPc = "dedup") => ENABLED SynthFinish
    /\ (AllEnginesEmpty /\ yPc = "done") =>
          /\ output.summary = [text |-> "No results found."]
          /\ output.results = <<>>
          /\ output.total_raw = 0
          /\ output.total_unique = 0

\* The synthesis of an all-empty engine map has returned.
C13_Witness ==
    /\ yPc = "done"
    /\ AllEnginesEmpty
    /\ DOMAIN rawResults = Range(SynthEngines)
    /\ output.summary.text = "No results found."

\* C14, as stated: with at least one result, the summary reports N =
\* total_unique and M = total_raw.
C14_SummaryCountsUniqueAndRaw ==
    (yPc = "done" /\ output.results # <<>>) =>
        /\ output.summary.unique_count = output.total_unique
        /\ output.summary.total_sources = output.total_raw

(***************************************************************************)
(* Properties of QueryProcessor.breakdown_query (PlanSpec)                 *)
(***************************************************************************)
\* q.lower().strip()
Normalized(q) == Strip(Lower(q))

\* C15: the planner's output is non-empty, starts with the original query,
\* has no two entries equal after trimming and lower-casing, and has at most
\* 5 entries.
C15_PlannerOutputShape ==
    planPc = "returned" =>
        /\ planOut # <<>>
        /\ planOut[1] = planQuery
        /\ \A i, j \in 1..Len(planOut) :
              Normalized(planOut[i]) = Normalized(planOut[j]) => i = j
        /\ Len(planOut) <= 5

\* A call that generated six sub-queries, two of them equal, and returned five.
C15_Witness ==
    /\ planPc = "returned"
    /\ Len(planSubs) = 6
    /\ \E i, j \in 1..Len(planSubs) :
          i < j /\ Normalized(planSubs[i]) = Normalized(planSubs[j])
    /\ Len(planOut) = 5

\* the words the claims about single intents are stated with
DefinitionPrefixes == { <<"W", "h", "a", "t", " ", "i", "s">>, <<"d", "e", "f", "i", "n", "e">>, <<"e", "x", "p", "l", "a", "i", "n">> }
SubjectWords == { <<"d", "n", "a">>, <<"c", "e", "l", "l">>, <<"g", "e", "n", "e">> }

\* the query is a definition prefix followed by a subject term
IsDefinitionQuery ==
    /\ Len(planWords) >= 2
    /\ planWords[1] \in DefinitionPrefixes
    /\ \A i \in 2..Len(planWords) : planWords[i] \in SubjectWords

SubjectTerm == Join(Tail(planWords), <<" ">>)

\* C16: for a definition prefix ("what is", "define", "explain") followed by
\* a subject term, the planner returns the original query followed by
\* "<term> definition", "<term> explanation" and "<term> examples".
C16_DefinitionQueriesGetThreeSubQueries ==
    (planPc = "returned" /\ IsDefinitionQuery) =>
        planOut = <<planQuery,
                    SubjectTerm \o <<" ", "d", "e", "f", "i", "n", "i", "t", "i", "o", "n">>,
                    SubjectTerm \o <<" ", "e", "x", "p", "l", "a", "n", "a", "t", "i", "o", "n">>,
                    SubjectTerm \o <<" ", "e", "x", "a", "m", "p", "l", "e", "s">>>>

\* C17: for a query whose first matching category is person, location or
\* time and that has a keyword, the planner returns the original query, the
\* top 3 keywords joined by spaces and "<first keyword> facts".
C17_FactualQueriesGetKeywordsAndFacts ==
    LET kw == ExtractKeywords(planQuery)
    IN (/\ planPc = "returned"
        /\ DetectIntent(Lower(planQuery)) \in {"person", "location", "time"}
        /\ kw # <<>>) =>
           planOut = <<planQuery,
                       Join(SlicePrefix(kw, 3), <<" ">>),
                       kw[1] \o <<" ", "f", "a", "c", "t", "s">>>>

\* C18: breakdown_query returns between 3 and 5 sub-queries.
C18_BetweenThreeAndFiveSubQueries ==
    planPc = "returned" => (3 <= Len(planOut) /\ Len(planOut) <= 5)

(***************************************************************************)
(* Properties of SearXNGEngine.search (SxSpec)                             *)
(***************************************************************************)
\* the attempt raised, got a non-success status or got no results
Unsuccessful(a) ==
    \/ a.resp.kind = "exception"
    \/ a.resp.status # 200
    \/ a.resp.items = <<>>

\* C19: at most 3 attempts, each against a host of the pool of at least 5;
\* only the last attempt can have got results (no attempt follows a
\* successful one); an unsuccessful attempt short of the third is followed by
\* another; the search returns the results of the successful attempt, or the
\* empty sequence after 3 unsuccessful attempts, and has no raising exit.
C19_SearxngRetriesThenEmpty ==
    /\ Len(sxAttempts) <= 3
    /\ Cardinality(Instances) >= 5
    /\ \A i \in 1..Len(sxAttempts) : sxAttempts[i].host \in Instances
    /\ \A i \in 1..(Len(sxAttempts) - 1) : Unsuccessful(sxAttempts[i])
    /\ sxPc \in {"start", "trying", "returned"}
    /\ (sxPc = "trying" /\ Len(sxAttempts) < 3) => ENABLED SxAttemptFails
    /\ sxPc = "trying" => Unsuccessful(sxAttempts[Len(sxAttempts)])
    /\ sxPc = "returned" =>
          LET last == sxAttempts[Len(sxAttempts)]
          IN IF Unsuccessful(last)
             THEN Len(sxAttempts) = 3 /\ sxOut = <<>>
             ELSE /\ sxOut # <<>>
                  /\ Len(sxOut) = Len(last.resp.items)
                  /\ \A k \in 1..Len(sxOut) :
                        sxOut[k].title = last.resp.items[k].title

\* A search whose first attempt raised, whose second got no results and
\* whose third returned results.
C19_Witness ==
    /\ sxPc = "returned"
    /\ Len(sxAttempts) = 3
    /\ sxAttempts[1].resp.kind = "exception"
    /\ sxAttempts[2].resp.status = 200 /\ sxAttempts[2].resp.items = <<>>
    /\ ~Unsuccessful(sxAttempts[3])
    /\ Len(sxOut) = 2

\* A search that returned nothing after three unsuccessful attempts.
C19_WitnessExhausted ==
    /\ sxPc = "returned"
    /\ \A i \in 1..3 : Unsuccessful(sxAttempts[i])
    /\ sxOut = <<>>

(***************************************************************************)
(* Properties of OllamaQueryProcessor (LlmSpec)                            *)
(***************************************************************************)
\* the liveness probe raised or got a non-success status
ProbeFailed ==
    llmPc = "ready" /\ (probeOutcome.kind = "exception" \/ probeOutcome.status # 200)

\* C20: the probe is made once, at construction; if it failed, no
\* breakdown_query call of the planner's lifetime contacts the LLM and every
\* call returns the deterministic planner's output for its query.
C20_FailedProbeMeansDeterministicForever ==
    /\ probes = (IF llmPc = "new" THEN 0 ELSE 1)
    /\ ProbeFailed =>
          /\ ~useOllama
          /\ llmCalls = 0
          /\ \A i \in 1..Len(llmLog) :
                /\ ~llmLog[i].contacted
                /\ llmLog[i].out = BreakdownQuery(llmLog[i].query)

\* A planner whose probe got status 500 and that has answered two calls.
C20_Witness ==
    /\ ProbeFailed
    /\ probeOutcome.status = 500
    /\ Len(llmLog) = 2
    /\ Len(llmLog[1].out) > 1

\* the liveness probe got status 200
ProbeSucceeded ==
    llmPc = "ready" /\ probeOutcome.kind = "response" /\ probeOutcome.status = 200

\* the generate request timed out or raised, got a non-success status, or
\* its body could not be parsed
CallFailed(reply) ==
    \/ reply.kind = "exception"
    \/ reply.status # 200
    \/ reply.json = "invalid"
    \/ reply.response = "number"

\* C21: with the LLM reachable, a call whose request or parsing failed
\* returned exactly the deterministic planner's output for its query, and
\* every call, also one after a failed call, sent a request to the LLM.
C21_FailedCallFallsBackForThatCallOnly ==
    ProbeSucceeded =>
        /\ useOllama
        /\ llmCalls = Len(llmLog)
        /\ \A i \in 1..Len(llmLog) :
              /\ llmLog[i].contacted
              /\ CallFailed(llmLog[i].reply) =>
                    llmLog[i].out = BreakdownQuery(llmLog[i].query)

\* A call that got status 500 and fell back, followed by a call that the LLM
\* answered.
C21_Witness ==
    /\ ProbeSucceeded
    /\ Len(llmLog) = 2
    /\ llmLog[1].reply.status = 500
    /\ Len(llmLog[1].out) > 1
    /\ llmLog[2].contacted
    /\ llmLog[2].reply.response = "string"
    /\ llmLog[2].out # BreakdownQuery(llmLog[2].query)

(***************************************************************************)
(* Further properties of the orchestrator (Spec)                           *)
(***************************************************************************)
\* the sub-query the claim assigns to the engine at 0-indexed position i
ExpectedSubQuery(i) == subQueries[(i % Len(subQueries)) + 1]

\* C22: in batch and in streaming mode the i-th registered engine (0-indexed)
\* is searched with subQueries[i mod len(subQueries)], the first engine with
\* subQueries[0], whatever the order in which the tasks settle.
C22_SubQueryByRegistrationIndex ==
    /\ bPc \in {"running", "returned"} =>
          \A i \in 1..Len(EngineOrder) : bQuery[EngineOrder[i]] = ExpectedSubQuery(i - 1)
    /\ sPc \in {"wait", "iter", "finished"} =>
          \A i \in 1..Len(EngineOrder) : sQuery[EngineOrder[i]] = ExpectedSubQuery(i - 1)

\* Two sub-queries and three engines: the third engine wraps around to the
\* first sub-query, and the stream has finished after the last registered
\* engine settled first.
C22_Witness ==
    /\ sPc = "finished"
    /\ Len(subQueries) = 2
    /\ sQuery[EngineOrder[2]] = subQueries[2]
    /\ sQuery[EngineOrder[3]] = subQueries[1]
    /\ bQuery[EngineOrder[3]] = subQueries[1]
    /\ settleSeq[1] = EngineOrder[3]

\* C26: an engine whose search settles within settings.search_timeout
\* contributes to the stream the results it contributes to the batch map.
C26_StreamUsesConfiguredTimeout ==
    (bPc = "returned" /\ sPc = "finished") =>
        \A e \in Engines :
            (~profile[e].raises /\ profile[e].latency <= SearchTimeout) =>
                /\ bMap[e] = profile[e].results
                /\ e \in EmittedEngines
                /\ emitted[EmitIndex(e)].results = bMap[e]

\* C23: every result the SearXNG adapter returns carries the adapter's
\* non-empty identifier as its source and a non-empty url, whatever items the
\* accepted response held (items without a url key included).
C23_ResultsHaveSourceAndUrl ==
    sxPc = "returned" =>
        \A k \in 1..Len(sxOut) :
            /\ sxOut[k].source = "SearXNG"
            /\ sxOut[k].source # ""
            /\ sxOut[k].url # ""

\* C27: every attempt of a search goes to the configured instance, or at
\* least the configured instance is one of the hosts a search can contact.
C27_ConfiguredInstanceIsUsed ==
    \/ \A i \in 1..Len(sxAttempts) : sxAttempts[i].host = sxInstanceUrl
    \/ sxInstanceUrl \in Instances

(***************************************************************************)
(* Properties of _deduplicate, step by step (SynthSpec)                    *)
(***************************************************************************)
\* two non-empty snippets whose similarity ratio, case ignored, exceeds 0.8
NearDuplicate(s1, s2) ==
    /\ s1 # <<>>
    /\ s2 # <<>>
    /\ 10 * MatchedChars(Lower(s1), Lower(s2), 1, Len(s1), 1, Len(s2))
         > 4 * (Len(s1) + Len(s2))

NoUrlCollision == InDedupLoop /\ CurrentUrl \notin DOMAIN seenUrls

\* C24: a candidate without URL collision whose snippet is a near-duplicate
\* of an accepted result's is discarded, the accepted results staying as they
\* are whatever the candidate's priority; a candidate without URL collision
\* that is a near-duplicate of none (an empty snippet on either side never
\* is one) is accepted.
C24_NearDuplicateKeepsFirstAccepted ==
    [][ NoUrlCollision =>
          IF \E i \in 1..Len(unique) : NearDuplicate(Current.snippet, unique[i].snippet)
          THEN /\ unique' = unique
               /\ seenUrls' = seenUrls
               /\ steps' = Append(steps, "discard")
          ELSE /\ unique' = Append(unique, Current)
               /\ steps' = Append(steps, "accept") ]_vars

\* A DuckDuckGo result was accepted, a Wikipedia result at another address
\* with a near copy of its snippet was discarded, and a Wikipedia result with
\* no snippet was accepted after it.
C24_Witness ==
    /\ yPc = "done"
    /\ steps = <<"accept", "discard", "accept">>
    /\ Priority(2) > Priority(1)
    /\ NearDuplicate(allResults[2].snippet, allResults[1].snippet)
    /\ allResults[3].snippet = <<>>
    /\ unique = <<allResults[1], allResults[3]>>

\* the position in the flattened input at which canonical URL u first occurs
FirstEncounter(u) ==
    CHOOSE i \in 1..Len(allResults) :
        /\ NormalizeUrl(allResults[i].url) = u
        /\ \A j \in 1..(i - 1) : NormalizeUrl(allResults[j].url) # u

\* C25: the output of _deduplicate lists the surviving results in the order
\* in which their canonical URLs were first encountered in the flattened
\* input, replacements included.
C25_OutputInEncounterOrder ==
    yPc = "done" =>
        \A p, q \in 1..Len(unique) :
            p < q => FirstEncounter(NormalizeUrl(unique[p].url))
                       < FirstEncounter(NormalizeUrl(unique[q].url))

\* C28: at every point of the _deduplicate loop and after it, no two results
\* of the output list share a canonical URL, and the list holds exactly the
\* values of the canonical-URL map, one per key.
C28_OneResultPerCanonicalUrl ==
    yPc \in {"dedup", "done"} =>
        /\ \A p, q \in 1..Len(unique) :
              p # q => NormalizeUrl(unique[p].url) # NormalizeUrl(unique[q].url)
        /\ Len(unique) = Cardinality(DOMAIN seenUrls)
        /\ \A k \in 1..Len(unique) :
              /\ NormalizeUrl(unique[k].url) \in DOMAIN seenUrls
              /\ seenUrls[NormalizeUrl(unique[k].url)] = unique[k]
        /\ \A u \in DOMAIN seenUrls : \E k \in 1..Len(unique) : unique[k] = seenUrls[u]

\* Two results were accepted and the first was then replaced by a result of
\* higher priority at the same canonical URL.
C28_Witness ==
    /\ yPc = "dedup"
    /\ steps = <<"accept", "accept", "replace">>
    /\ Len(unique) = 2
    /\ unique[2] = allResults[3]
    /\ NormalizeUrl(allResults[3].url) = NormalizeUrl(allResults[1].url)

\* the insertion orders a map with the keys of order can have
InsertionOrders(order) ==
    { p \in [1..Len(order) -> Range(order)] :
        \A i, j \in 1..Len(order) : i # j => p[i] # p[j] }

\* C29: synthesizing the same per-engine responses from a map filled in any
\* other order (the completion order of the streaming pairs) gives the same
\* surviving results, the same total_unique and the same ranked list.
C29_FusionIndependentOfCompletionOrder ==
    yPc = "done" =>
        \A order \in InsertionOrders(rawOrder) :
            /\ Range(Deduplicate(Flatten(order, rawResults))) = Range(unique)
            /\ Synthesize(query, order, rawResults, maxResults).total_unique
                 = output.total_unique
            /\ Synthesize(query, order, rawResults, maxResults).results
                 = output.results

\* the step-by-step run of synthesize returns what Synthesize computes
SynthesizeAgrees ==
    yPc = "done" =>
        /\ Deduplicate(allResults) = unique
        /\ Synthesize(query, rawOrder, rawResults, maxResults) = output

(***************************************************************************)
(* Properties of websocket_process (WsSpec)                                *)
(***************************************************************************)
\* C30: a connection whose handler has ended is not in active_connections.
C30_EndedHandlersAreRemoved ==
    \A c \in Connections :
        wsPc[c] = "ended" => c \notin Range(activeConnections)
====
